---- MODULE Spec2Model ----
(***************************************************************************)
(* Model of the nanocl daemon's process reconciler                         *)
(* (bin/nanocld/src/objects/generic/process.rs, trait ObjProcess).         *)
(*                                                                         *)
(* One parent object (one kind_key) with its ObjPsStatus row, its Process  *)
(* rows, the containers of the runtime and the event bus.  Every request   *)
(* is an async task: each `.await` on the store or on the runtime is a     *)
(* suspension point, so one action of the model is one awaited call        *)
(* together with the local computation around it.  Tasks have no identity  *)
(* of their own, so the tasks of the daemon are kept as a bag of records.  *)
(***************************************************************************)
EXTENDS Integers, Sequences, FiniteSets, Bags, TLC

\* Number of request tasks the daemon serves in one run.
MaxReq == 2
\* Largest number of Process rows of the parent object.
MaxProcs == 2

ProcKeys == 1..MaxProcs

VARIABLES
  status,      \* the ObjPsStatus row of the object
  processes,   \* the Process rows of the object, in the order the store lists them
  containers,  \* the runtime: the container of each process key
  events,      \* the event bus: native actions emitted so far, in order
  tasks,       \* bag of request tasks: operation, position, locals, history
  specs,       \* the specs table: the set of Spec rows
  objects,     \* the live object rows (vms, cargoes): kind and spec_key per key
  minted,      \* number of Spec keys generated so far (Uuid::new_v4 never repeats)
  vm_task,     \* the request on the VM update path: position, locals, history
  world,       \* the names of the cargoes, resources and namespaces that exist
  pipe,        \* the apply / revert request of the state pipeline
  progress,    \* the progress channel of that request: the messages sent
  rx_alive,    \* whether the receiver of the progress channel still exists
  spawned,     \* the event emissions that request has handed to rt::spawn
  parse,       \* a call of parse_state: the document given and what it returned
  vmconf,      \* a call of create_instance: the VM given and the container it asks for
  bus,         \* the event bus: what was emitted and the queue of each subscriber
  node,        \* the nodes table and the registrations of the local node
  emitters,    \* per cargo of an apply: its future and the two emission tasks it spawns
  pair         \* one revert of a Deployment and one of a Cargo document, on the same store

vars == <<status, processes, containers, events, tasks,
          specs, objects, minted, vm_task,
          world, pipe, progress, rx_alive, spawned,
          parse, vmconf, bus, node, emitters, pair>>

\* The variables of the state pipeline.
pipe_vars == <<world, pipe, progress, rx_alive, spawned>>

\* The variables of the spec store and of the VM update path.
store_vars == <<specs, objects, minted, vm_task>>

\* The variables of the pure functions and of the small components, which
\* the request paths above leave alone.
aux_vars == <<parse, vmconf, bus, node, emitters, pair>>

NoRow == [wanted |-> "", actual |-> "", prev_wanted |-> "", prev_actual |-> ""]

\* The rows an object's status holds when no request is in flight.
CreatedRow ==
  [wanted |-> "Created", actual |-> "Created",
   prev_wanted |-> "Created", prev_actual |-> "Created"]
RunningRow ==
  [wanted |-> "Running", actual |-> "Running",
   prev_wanted |-> "Created", prev_actual |-> "Starting"]
StoppedRow ==
  [wanted |-> "Stopped", actual |-> "Stopped",
   prev_wanted |-> "Running", prev_actual |-> "Stopping"]

\* Variant: an absent flag counts as running (unwrap_or(true)).
IsRunningUnlessFalse(process) == process.running # "false"

\* process.data.state.unwrap_or_default().running.unwrap_or_default():
\* the flag is an Option<bool>, absent counts as not running.
IsRunning(process) == process.running = "true"

\* A task as it is spawned for operation op (pk: the argument of del,
\* opts: the CargoKillOptions of kill).
\* log is the history of the effects the task performed, in order.
NewTask(op, pk) ==
  [op |-> op, pk |-> pk, opts |-> "none", pc |-> "new", current_status |-> NoRow,
   processes |-> <<>>, i |-> 0, res |-> "none", log |-> <<>>]

Entry(kind, arg) ==
  [kind |-> kind, arg |-> arg, opts |-> "none", old |-> NoRow, row |-> NoRow]

Logged(q, e) == [q EXCEPT !.log = Append(@, e)]

\* The rows of n processes with keys 1..n.
RowSeqs(n) ==
  { s \in [1..n -> [key : ProcKeys, running : {"true", "false", "none"}]] :
      \A k \in 1..n : s[k].key = k }

(***************************************************************************)
(* The spec store (repositories/spec.rs) and the rows that point into it.  *)
(* A Spec row is [key, kind_name, kind_key, version, data, metadata]; the  *)
(* data of a Vm row is a VmSpecPartial.  Option fields hold None when      *)
(* absent.  created_at plays no part in what is modelled and is left out.  *)
(***************************************************************************)
None == "None"

\* VmHostConfig::default()
DefaultHostConfig == "default"

\* Largest number of revisions the update path mints in one run.
MaxRev == 2

\* The live objects of the store: one VM and one cargo.
VmKey == "vm1"
CargoKey == "c1"
ObjKeys == {VmKey, CargoKey}

\* The process key of the container of the VM, "<vm_key>.v".
VmProc == 1

\* Every VmSpecUpdate over the values None / "new": all fields are optional.
AllUpdates ==
  [name : {None, "new"}, host_config : {None, "new"}, hostname : {None, "new"},
   user : {None, "new"}, password : {None, "new"}, ssh_key : {None, "new"},
   labels : {None, "new"}, metadata : {None, "new"}]

NoUpdate ==
  [name |-> None, host_config |-> None, hostname |-> None, user |-> None,
   password |-> None, ssh_key |-> None, labels |-> None, metadata |-> None]

\* Every VmSpecPartial over the values None / "old": name and disk are required.
AllPartials ==
  [name : {"old"}, disk : {"disk"}, host_config : {None, "old"},
   hostname : {None, "old"}, user : {None, "old"}, password : {None, "old"},
   ssh_key : {None, "old"}, mac_address : {None, "old"},
   labels : {None, "old"}, metadata : {None, "old"}]

NoPartial ==
  [name |-> None, disk |-> None, host_config |-> None, hostname |-> None,
   user |-> None, password |-> None, ssh_key |-> None, mac_address |-> None,
   labels |-> None, metadata |-> None]

\* The VmSpecPartial the VM was created from.
BasePartial ==
  [name |-> "old", disk |-> "disk", host_config |-> None, hostname |-> "old",
   user |-> "old", password |-> None, ssh_key |-> None, mac_address |-> "old",
   labels |-> None, metadata |-> "old"]

\* The payload of the cargo's spec; its fields play no part here.
CargoPartial == [NoPartial EXCEPT !.name = "cargo"]

\* Variant: the row of a VM is minted with the kind_name of a cargo.
SpecFromVmPartialAsCargo(key, version, item, uuid) ==
  [key |-> uuid, kind_name |-> "Cargo", kind_key |-> key, version |-> version,
   data |-> item, metadata |-> item.metadata]

\* spec.rs:124-138  SpecDb::try_from_vm_partial; uuid is Uuid::new_v4()
SpecFromVmPartial(key, version, item, uuid) ==
  [key |-> uuid, kind_name |-> "Vm", kind_key |-> key, version |-> version,
   data |-> item, metadata |-> item.metadata]

\* spec.rs:108-122  SpecDb::try_from_cargo_partial
SpecFromCargoPartial(key, version, item, uuid) ==
  [key |-> uuid, kind_name |-> "Cargo", kind_key |-> key, version |-> version,
   data |-> item, metadata |-> item.metadata]

\* spec.rs:159-178  SpecDb::try_to_vm_spec
ToVmSpec(row) ==
  [key |-> row.key, vm_key |-> row.kind_key, version |-> row.version,
   name |-> row.data.name, metadata |-> row.metadata,
   hostname |-> row.data.hostname, password |-> row.data.password,
   disk |-> row.data.disk,
   host_config |-> IF row.data.host_config = None THEN DefaultHostConfig
                   ELSE row.data.host_config,
   ssh_key |-> row.data.ssh_key, user |-> row.data.user,
   mac_address |-> row.data.mac_address, labels |-> row.data.labels]

\* The value of a local that holds no VmSpec yet.
NoVmSpec ==
  [key |-> 0, vm_key |-> "", version |-> "", name |-> None, metadata |-> None,
   hostname |-> None, password |-> None, disk |-> None, host_config |-> None,
   ssh_key |-> None, user |-> None, mac_address |-> None, labels |-> None]

\* An object row that is absent from its table.
NoObject == [kind |-> "none", spec_key |-> 0]

\* No request on the VM update path.
IdleTask ==
  [op |-> "none", key |-> "", pc |-> "idle", version |-> "", update |-> NoUpdate,
   partial |-> NoPartial, vm |-> NoVmSpec, res |-> "none", log |-> <<>>]

\* The store after the VM was created from partial and the cargo from its
\* own payload: one revision each, each object pointing at its revision.
StoreInit(partial) ==
  /\ specs = {[key |-> 1, kind_name |-> "Vm", kind_key |-> VmKey,
               version |-> "v1", data |-> partial, metadata |-> partial.metadata],
              [key |-> 2, kind_name |-> "Cargo", kind_key |-> CargoKey,
               version |-> "v1", data |-> CargoPartial,
               metadata |-> CargoPartial.metadata]}
  /\ objects = [k \in ObjKeys |->
                  IF k = VmKey THEN [kind |-> "Vm", spec_key |-> 1]
                  ELSE [kind |-> "Cargo", spec_key |-> 2]]
  /\ minted = 2
  /\ vm_task = IdleTask

(***************************************************************************)
(* The state pipeline (utils/state.rs): a State document, the objects      *)
(* that exist, and the apply / revert request that works on them.          *)
(***************************************************************************)

\* Number of apply / revert requests served in one run.
MaxRuns == 2

\* The lists of cargoes and of resources a document may carry.
CargoLists == {<<>>, <<"a">>, <<"a", "b">>}
ResourceLists == {<<>>, <<"r">>}

\* A StateDeployment: namespace is None or a name; cargoes and resources
\* are Option<Vec<_>> (has_* is is_some(), the list is empty when None).
\* The documents explored carry a list with at least one item, or no list.
NoDoc ==
  [namespace |-> None, has_cargoes |-> FALSE, cargoes |-> <<>>,
   has_resources |-> FALSE, resources |-> <<>>]

Docs ==
  { d \in [namespace : {None, "demo"},
           has_cargoes : BOOLEAN,
           cargoes : CargoLists,
           has_resources : BOOLEAN,
           resources : ResourceLists] :
      /\ d.has_cargoes <=> d.cargoes # <<>>
      /\ d.has_resources <=> d.resources # <<>> }

\* No cargo, no resource, the namespace every daemon has.
NoWorld == [cargoes |-> {}, resources |-> {}, namespaces |-> {"global"}]

\* state.rs:197-202, 257-261  the namespace the cargoes of a document live in
NamespaceOf(doc) == IF doc.namespace # None THEN doc.namespace ELSE "global"

\* utils::key::gen_key(namespace, name)
GenKey(namespace, name) == name \o "." \o namespace

\* The worlds a request on document doc may start from: with or without the
\* namespace "demo", and any of the objects the document can name.
Worlds(doc) ==
  { w \in [cargoes : SUBSET { GenKey(NamespaceOf(doc), doc.cargoes[k]) :
                                k \in 1..Len(doc.cargoes) },
           resources : SUBSET { doc.resources[k] : k \in 1..Len(doc.resources) },
           namespaces : {{"global"}, {"global", "demo"}}] :
      w.cargoes # {} => NamespaceOf(doc) \in w.namespaces }

\* No earlier request.
NoRun ==
  [op |-> "none", clean |-> FALSE, first |-> "none", before |-> NoWorld,
   after |-> NoWorld]

\* The pipeline with no request in flight, for document doc.
IdlePipe(doc) ==
  [op |-> "none", pc |-> "idle", doc |-> doc, items |-> <<>>, i |-> 0,
   res |-> "none", send_failed |-> FALSE, log |-> <<>>, failed |-> {}, runs |-> 0,
   before |-> NoWorld, prev |-> NoRun]

\* No call of parse_state yet.
NoParse == [data |-> [kind |-> None, fits |-> {}], called |-> FALSE,
            status |-> 0, variant |-> None]

\* No call of create_instance yet.
NoVmConf ==
  [vm |-> [vm_key |-> None, kvm |-> None, cpu |-> 0, memory |-> 0],
   image |-> None, called |-> FALSE, name |-> None, cmd |-> <<>>,
   devices |-> <<>>]

\* The event bus without subscriber.
NoBus == [emitter |-> <<>>, sent |-> <<>>, queue |-> <<>>, got |-> <<>>,
          live |-> <<>>]

\* The nodes table, empty, and no registration.
NoNodes == [rows |-> {}, calls |-> <<>>, clock |-> 0]

\* No cargo future.
NoEmitters == <<>>

\* No pair of reverts.
NoPair == [called |-> FALSE]

\* The pure functions and small components, not in use, but the one named.
AuxIdle(used) ==
  /\ IF used = "parse" THEN TRUE ELSE parse = NoParse
  /\ IF used = "vmconf" THEN TRUE ELSE vmconf = NoVmConf
  /\ IF used = "bus" THEN TRUE ELSE bus = NoBus
  /\ IF used = "node" THEN TRUE ELSE node = NoNodes
  /\ IF used = "emitters" THEN TRUE ELSE emitters = NoEmitters
  /\ IF used = "pair" THEN TRUE ELSE pair = NoPair

AuxInit == AuxIdle("none")

PipeInit(doc, w) ==
  /\ AuxInit
  /\ world = w
  /\ pipe = IdlePipe(doc)
  /\ progress = <<>>
  /\ rx_alive = TRUE
  /\ spawned = {}

Init ==
  /\ \E n \in 0..MaxProcs : processes \in RowSeqs(n)
  /\ containers \in [ProcKeys -> {"running", "exited", "absent"}]
  /\ \A k \in ProcKeys :
       \/ containers[k] = "absent"
       \/ /\ k <= Len(processes)
          /\ containers[k] = "running" <=> processes[k].running = "true"
  /\ status \in {CreatedRow, RunningRow, StoppedRow}
  /\ status.actual = "Running" =>
       \E k \in 1..Len(processes) : processes[k].running = "true"
  /\ events = <<>>
  /\ tasks = EmptyBag
  /\ StoreInit(BasePartial)
  /\ PipeInit(NoDoc, NoWorld)

Return(q, res) == [q EXCEPT !.pc = "done", !.res = res]

\* Task q takes a step and becomes n.  The reconciler reads and writes
\* object_process_statuses and processes only: the spec store is left alone.
Step(q, n) ==
  /\ tasks' = (tasks (-) SetToBag({q})) (+) SetToBag({n})
  /\ UNCHANGED store_vars
  /\ UNCHANGED pipe_vars
  /\ UNCHANGED aux_vars

\* A request arrives: a task is spawned and runs up to its first awaited call.
Spawn(n) ==
  /\ BagCardinality(tasks) < MaxReq
  /\ tasks' = tasks (+) SetToBag({n})
  /\ UNCHANGED store_vars
  /\ UNCHANGED pipe_vars
  /\ UNCHANGED aux_vars

\* The tasks of operation op that stand at position pc.
At(op, pc) == { q \in BagToSet(tasks) : q.op = op /\ q.pc = pc }

\* Variant: the short-circuit compares with Starting instead of Running.
AlreadyStarting(current_status) == current_status.actual = "Starting"

\* process.rs:64  current_status.actual == ObjPsStatusKind::Running
AlreadyRunning(current_status) == current_status.actual = "Running"

\* Variant: the prev_* fields are filled with the new values.
StatusUpdatePrevFromNew(current_status) ==
  [wanted |-> "Running", prev_wanted |-> "Running",
   actual |-> "Starting", prev_actual |-> "Starting"]

\* process.rs:68-73  the ObjPsStatusUpdate built from the row that was read
StatusUpdate(current_status) ==
  [wanted |-> "Running", prev_wanted |-> current_status.wanted,
   actual |-> "Starting", prev_actual |-> current_status.actual]

\* process.rs:62-67  what start does with the row it read
AfterStatusRead(q, row) ==
  IF AlreadyRunning(row)
  THEN Return([q EXCEPT !.current_status = row], "Ok")
  ELSE [q EXCEPT !.current_status = row, !.pc = "update"]

\* process.rs:62-63  ObjPsStatusDb::read_by_pk(kind_key, ..).await?
StartRead ==
  /\ \E ok \in BOOLEAN :
       LET q == NewTask("start", 0) IN
       Spawn(IF ok THEN AfterStatusRead(q, status) ELSE Return(q, "StoreErr"))
  /\ UNCHANGED <<status, processes, containers, events>>

\* process.rs:75  ObjPsStatusDb::update_pk(kind_key, status_update, ..).await?
StartUpdate ==
  /\ \E q \in At("start", "update"), ok \in BOOLEAN :
       IF ~ok
       THEN /\ Step(q, Return(q, "StoreErr"))
            /\ UNCHANGED status
       ELSE /\ status' = StatusUpdate(q.current_status)
            /\ Step(q, Logged([q EXCEPT !.pc = "emit"],
                 [Entry("write", "Starting") EXCEPT !.old = status, !.row = status']))
  /\ UNCHANGED <<processes, containers, events>>

\* The native action each operation emits.
ActionOf(op) ==
  CASE op = "start" -> "Starting"
    [] op = "stop" -> "Stopping"
    [] op = "restart" -> "Restart"

\* Variant: the event is sent before the parent object is read.
EmitBeforeRead ==
  /\ \E q \in { t \in BagToSet(tasks) : t.pc = "emit" }, ok \in BOOLEAN :
       /\ events' = Append(events, ActionOf(q.op))
       /\ Step(q, Return(Logged(q, Entry("emit", ActionOf(q.op))),
                         IF ok THEN "Ok" ELSE "StoreErr"))
  /\ UNCHANGED <<status, processes, containers>>

\* process.rs:23-54  _emit: read the parent object, then emit on the bus.
\* Each arm awaits the store before emit_normal_native_action, and a failed
\* store call leaves without emitting.  (The Job arm also stamps updated_at
\* on the Job row, which is no part of the state modelled here.)
Emit ==
  /\ \E q \in { t \in BagToSet(tasks) : t.pc = "emit" }, ok \in BOOLEAN :
       IF ~ok
       THEN /\ Step(q, Return(q, "StoreErr"))
            /\ UNCHANGED events
       ELSE /\ events' = Append(events, ActionOf(q.op))
            /\ Step(q, Return(Logged(q, Entry("emit", ActionOf(q.op))), "Ok"))
  /\ UNCHANGED <<status, processes, containers>>

\* The signals a caller may ask kill to send (CargoKillOptions.signal).
Signals == {"SIGKILL", "SIGHUP"}

\* ProcessDb::read_by_kind_key(kind_key, ..).await?  (process.rs:84, 107, 123)
ReadProcesses(op) ==
  /\ \E ok \in BOOLEAN, opts \in (IF op = "kill" THEN Signals ELSE {"none"}) :
       LET q == [NewTask(op, 0) EXCEPT !.opts = opts] IN
       Spawn(IF ok THEN [q EXCEPT !.processes = processes, !.i = 1, !.pc = "loop"]
             ELSE Return(q, "StoreErr"))
  /\ UNCHANGED <<status, processes, containers, events>>

\* Variant: restart returns after its loop without emitting.
AfterLoopNoEmit(q) == Return(q, "Ok")

\* End of a `for process in processes` loop: the statement after the loop.
AfterLoop(q) ==
  IF q.op = "kill" THEN Return(q, "Ok") ELSE [q EXCEPT !.pc = "emit"]

\* process.rs:88-90  what the stop loop does with a process that is not running
StopNotRunning(q) == Return(q, "Ok")

\* Variant: a failed runtime call is swallowed and the loop goes on.
RuntimeFailedContinue(q) == [q EXCEPT !.i = q.i + 1]

\* `.await?` on a runtime call that failed: the error leaves the function
RuntimeFailed(q) == Return(q, "RuntimeErr")

\* The answers the runtime can give to a call on a container in state c.
\* A missing container is a 404; a kill of a container that is not running is
\* a conflict; any call may fail with a server error.
RuntimeAnswers(call, c) ==
  IF c = "absent" THEN {"404"}
  ELSE IF call = "kill" /\ c # "running" THEN {"err"}
  ELSE {"ok", "err"}

\* The state of the container after the runtime served the call.
RuntimeEffect(call, c) ==
  CASE call = "stop" -> "exited"
    [] call = "kill" -> "exited"
    [] call = "restart" -> "running"
    [] call = "remove" -> "absent"

\* The runtime serves `call` on container key with answer ans.
Runtime(call, key, ans) ==
  containers' =
    IF ans = "ok" THEN [containers EXCEPT ![key] = RuntimeEffect(call, @)]
    ELSE containers

\* process.rs:86-98  one iteration of the stop loop (or its end, line 99)
StopLoop ==
  /\ \E q \in At("stop", "loop") :
       IF q.i > Len(q.processes)
       THEN /\ Step(q, AfterLoop(q))
            /\ UNCHANGED containers
       ELSE LET process == q.processes[q.i] IN
            IF ~IsRunning(process)
            THEN /\ Step(q, StopNotRunning(q))
                 /\ UNCHANGED containers
            ELSE \E ans \in RuntimeAnswers("stop", containers[process.key]) :
                   /\ Runtime("stop", process.key, ans)
                   /\ Step(q, IF ans = "ok"
                              THEN Logged([q EXCEPT !.i = q.i + 1], Entry("stop", process.key))
                              ELSE RuntimeFailed(Logged(q, Entry("stop_err", process.key))))
  /\ UNCHANGED <<status, processes, events>>

\* Variant: a 404 of the runtime is returned like any other error.
AfterRemove404IsError(q, ans) ==
  IF ans = "ok" THEN [q EXCEPT !.pc = "del_row"] ELSE Return(q, "RuntimeErr")

\* Variant: the row is deleted whatever the runtime answered.
AfterRemoveUnconditional(q, ans) == [q EXCEPT !.pc = "del_row"]

\* Variant: the kill is sent with the default options.
DefaultOpts(q) == "SIGKILL"

\* process.rs:111 and 127  the options passed with the call: None for
\* restart, Some(opts.clone().into()) for kill
ForwardedOpts(q) == q.opts

\* process.rs:108-113 and 124-129  one iteration of the restart or kill loop
\* (or its end: line 114 or 130)
ForwardLoop ==
  /\ \E q \in At("restart", "loop") \cup At("kill", "loop") :
       IF q.i > Len(q.processes)
       THEN /\ Step(q, AfterLoop(q))
            /\ UNCHANGED containers
       ELSE LET process == q.processes[q.i] IN
            \E ans \in RuntimeAnswers(q.op, containers[process.key]) :
              /\ Runtime(q.op, process.key, ans)
              /\ Step(q, IF ans = "ok"
                         THEN Logged([q EXCEPT !.i = q.i + 1],
                                [Entry(q.op, process.key) EXCEPT !.opts = ForwardedOpts(q)])
                         ELSE RuntimeFailed(Logged(q,
                                [Entry(q.op \o "_err", process.key) EXCEPT !.opts = ForwardedOpts(q)])))
  /\ UNCHANGED <<status, processes, events>>

\* process.rs:140-154  what del_process_by_pk does with the runtime's answer
AfterRemove(q, ans) ==
  CASE ans = "ok" -> [q EXCEPT !.pc = "del_row"]
    [] ans = "404" -> [q EXCEPT !.pc = "del_row"]
    [] OTHER -> Return(q, "RuntimeErr")

\* process.rs:139  state.docker_api.remove_container(pk, opts).await
DelRemove ==
  /\ \E pk \in ProcKeys :
       \E ans \in RuntimeAnswers("remove", containers[pk]) :
         /\ Runtime("remove", pk, ans)
         /\ Spawn(AfterRemove(Logged(NewTask("del", pk), Entry("remove_" \o ans, pk)), ans))
  /\ UNCHANGED <<status, processes, events>>

\* The Process table without the row of key pk.
DelByPk(rows, pk) == SelectSeq(rows, LAMBDA p : p.key # pk)

\* process.rs:155  ProcessDb::del_by_pk(pk, ..).await?
DelRow ==
  /\ \E q \in At("del", "del_row"), ok \in BOOLEAN :
       IF ~ok
       THEN /\ Step(q, Return(q, "StoreErr"))
            /\ UNCHANGED processes
       ELSE /\ processes' = DelByPk(processes, q.pk)
            /\ Step(q, Return(Logged(q, Entry("del_row", q.pk)), "Ok"))
  /\ UNCHANGED <<status, containers, events>>

Next ==
  \/ StartRead
  \/ StartUpdate
  \/ Emit
  \/ ReadProcesses("stop")
  \/ StopLoop
  \/ DelRemove
  \/ DelRow

Spec == Init /\ [][Next]_vars

\* The restart and kill requests (process.rs:103-131).
NextForward ==
  \/ ReadProcesses("restart")
  \/ ReadProcesses("kill")
  \/ ForwardLoop
  \/ Emit

SpecForward == Init /\ [][NextForward]_vars

(***************************************************************************)
(* The VM update path (utils/vm.rs): patch merges an update over the       *)
(* latest spec and hands the result to put; put stops and removes the      *)
(* container of the VM, mints the new revision, recreates and starts.      *)
(* One request is served at a time; each awaited call is one action.       *)
(* The parent object of the reconciler state is the VM, its one process    *)
(* is the container "<vm_key>.v".                                          *)
(***************************************************************************)

\* The versions a caller may pass.
Versions == {"v1", "v2"}

\* The updates a patch request carries: no field, or several fields.
PatchUpdates ==
  {NoUpdate,
   [NoUpdate EXCEPT !.name = "new", !.host_config = "new", !.hostname = "new"]}

\* The partial a put request carries.
PutPartials ==
  {[BasePartial EXCEPT !.host_config = "new", !.labels = "new"]}

\* A request as it arrives on the VM update path.
NewVmTask(op, key, version) ==
  [IdleTask EXCEPT !.op = op, !.key = key, !.pc = "new", !.version = version]

\* A new request is served when no other is in flight.
CanArrive == vm_task.pc \in {"idle", "done"} /\ minted < 2 + MaxRev

\* Variant: a failed call is ignored and the request carries on.
AnswerIgnoringErrors(t, ok, step, next) ==
  [t EXCEPT !.pc = next, !.log = Append(@, IF ok THEN step ELSE step \o "_err")]

\* `call.await?`: on success the request moves to its next call, on failure
\* it returns the error at once.  The log keeps the outcome of each call.
Answer(t, ok, step, next) ==
  IF ok THEN [t EXCEPT !.pc = next, !.log = Append(@, step)]
  ELSE [t EXCEPT !.pc = "done", !.res = "Err", !.log = Append(@, step \o "_err")]

\* VmDb::transform_read_by_pk: the rows of vms joined with specs on spec_key.
ReadVm(key) ==
  { ToVmSpec(row) : row \in { r \in specs : /\ objects[key].kind = "Vm"
                                            /\ r.key = objects[key].spec_key } }

\* Variant: a field that is absent from the update clears the old value.
MergeLabelsFromUpdate(spec, vm, old_spec) ==
  [name |-> IF spec.name # None THEN spec.name ELSE vm.name,
   disk |-> old_spec.disk,
   host_config |-> IF spec.host_config # None THEN spec.host_config
                   ELSE old_spec.host_config,
   hostname |-> IF spec.hostname # None THEN spec.hostname ELSE old_spec.hostname,
   user |-> IF spec.user # None THEN spec.user ELSE old_spec.user,
   password |-> IF spec.password # None THEN spec.password ELSE old_spec.password,
   ssh_key |-> IF spec.ssh_key # None THEN spec.ssh_key ELSE old_spec.ssh_key,
   mac_address |-> old_spec.mac_address,
   labels |-> spec.labels,
   metadata |-> IF spec.metadata # None THEN spec.metadata ELSE old_spec.metadata]

\* vm.rs:184-221  the VmSpecPartial patch builds from the update `spec`,
\* the VM it read and the VmSpec of the VM's current revision.
Merge(spec, vm, old_spec) ==
  [name |-> IF spec.name # None THEN spec.name ELSE vm.name,
   disk |-> old_spec.disk,
   host_config |-> IF spec.host_config # None THEN spec.host_config
                   ELSE old_spec.host_config,
   hostname |-> IF spec.hostname # None THEN spec.hostname ELSE old_spec.hostname,
   user |-> IF spec.user # None THEN spec.user ELSE old_spec.user,
   password |-> IF spec.password # None THEN spec.password ELSE old_spec.password,
   ssh_key |-> IF spec.ssh_key # None THEN spec.ssh_key ELSE old_spec.ssh_key,
   mac_address |-> old_spec.mac_address,
   labels |-> IF spec.labels # None THEN spec.labels ELSE old_spec.labels,
   metadata |-> IF spec.metadata # None THEN spec.metadata ELSE old_spec.metadata]

\* vm.rs:180  patch arrives with an update out of U and reads the VM.
PatchRead(U) ==
  /\ CanArrive
  /\ \E spec \in U, version \in Versions, ok \in BOOLEAN :
       LET t == [NewVmTask("patch", VmKey, version) EXCEPT !.update = spec]
           found == ReadVm(t.key)
       IN  vm_task' =
             IF ok /\ found # {}
             THEN [Answer(t, TRUE, "read", "read_spec")
                     EXCEPT !.vm = CHOOSE v \in found : TRUE]
             ELSE Answer(t, FALSE, "read", "done")
  /\ UNCHANGED pipe_vars
  /\ UNCHANGED aux_vars
  /\ UNCHANGED <<status, processes, containers, events, tasks,
                 specs, objects, minted>>

\* vm.rs:181-222  patch reads the row of the current revision, converts it,
\* merges the update over it and calls put with the result.
PatchReadSpec ==
  /\ vm_task.pc = "read_spec"
  /\ \E ok \in BOOLEAN :
       LET rows == { r \in specs : r.key = vm_task.vm.key }
       IN  vm_task' =
             IF ok /\ rows # {}
             THEN [Answer(vm_task, TRUE, "read_spec", "put")
                     EXCEPT !.partial =
                       Merge(vm_task.update, vm_task.vm,
                             ToVmSpec(CHOOSE r \in rows : TRUE))]
             ELSE Answer(vm_task, FALSE, "read_spec", "done")
  /\ UNCHANGED pipe_vars
  /\ UNCHANGED aux_vars
  /\ UNCHANGED <<status, processes, containers, events, tasks,
                 specs, objects, minted>>

\* The requests that enter put: a put request that arrives with a partial
\* out of P, or the patch request that has merged its update.
PutEntries(P) ==
  (IF CanArrive
   THEN { [NewVmTask("put", VmKey, version) EXCEPT !.partial = partial] :
            partial \in P, version \in Versions }
   ELSE {})
  \cup (IF vm_task.pc = "put" THEN {vm_task} ELSE {})

\* vm.rs:233-234  put reads the VM
PutRead(P) ==
  /\ \E t \in PutEntries(P), ok \in BOOLEAN :
       LET found == ReadVm(t.key)
       IN  vm_task' =
             IF ok /\ found # {}
             THEN [Answer(t, TRUE, "read_vm", "stop")
                     EXCEPT !.vm = CHOOSE v \in found : TRUE]
             ELSE Answer(t, FALSE, "read_vm", "done")
  /\ UNCHANGED pipe_vars
  /\ UNCHANGED aux_vars
  /\ UNCHANGED <<status, processes, containers, events, tasks,
                 specs, objects, minted>>

\* The Process rows after the runtime changed the container of the VM.
Synced(rows, c) ==
  [k \in 1..Len(rows) |->
     [rows[k] EXCEPT !.running = IF c = "running" THEN "true" ELSE "false"]]

\* vm.rs:235  utils::process::stop_by_kind(Vm, vm_key): the container of
\* the VM, when there is one and it runs, is stopped.
PutStop ==
  /\ vm_task.pc = "stop"
  /\ \E ok \in BOOLEAN :
       /\ vm_task' = Answer(vm_task, ok, "stop", "remove")
       /\ containers' =
            IF ok /\ containers[VmProc] = "running"
            THEN [containers EXCEPT ![VmProc] = "exited"]
            ELSE containers
       /\ processes' = IF ok THEN Synced(processes, "exited") ELSE processes
  /\ UNCHANGED pipe_vars
  /\ UNCHANGED aux_vars
  /\ UNCHANGED <<status, events, tasks, specs, objects, minted>>

\* Variant: the remove call reports success and leaves the container.
RemoveContainerKept(c, ok) == c

\* vm.rs:236-241  the containers after utils::process::remove answered.
RemoveContainer(c, ok) == IF ok THEN [c EXCEPT ![VmProc] = "absent"] ELSE c

\* vm.rs:236-241  utils::process::remove("<vm_key>.v"): the container and
\* its Process row are removed.
PutRemove ==
  /\ vm_task.pc = "remove"
  /\ \E ok \in BOOLEAN :
       /\ vm_task' = Answer(vm_task, ok, "remove", "mint")
       /\ containers' = RemoveContainer(containers, ok)
       /\ processes' = IF ok THEN <<>> ELSE processes
  /\ UNCHANGED pipe_vars
  /\ UNCHANGED aux_vars
  /\ UNCHANGED <<status, events, tasks, specs, objects, minted>>

\* vm.rs:242-244  VmDb::update_from_spec, first half: the new revision is
\* built by SpecDb::try_from_vm_partial and inserted into specs.
PutMint ==
  /\ vm_task.pc = "mint"
  /\ \E ok \in BOOLEAN :
       /\ vm_task' = Answer(vm_task, ok, "mint", "repoint")
       /\ specs' =
            IF ok
            THEN specs \cup {SpecFromVmPartial(vm_task.vm.vm_key, vm_task.version,
                                                vm_task.partial, minted + 1)}
            ELSE specs
       /\ minted' = IF ok THEN minted + 1 ELSE minted
  /\ UNCHANGED pipe_vars
  /\ UNCHANGED aux_vars
  /\ UNCHANGED <<status, processes, containers, events, tasks, objects>>

\* The revision the request has just minted.
MintedRow == CHOOSE r \in specs : r.key = minted

\* vm.rs:242-244  VmDb::update_from_spec, second half: spec_key of the VM
\* row is set to the key of the new revision; put goes on with the new Vm.
PutRepoint ==
  /\ vm_task.pc = "repoint"
  /\ \E ok \in BOOLEAN :
       /\ vm_task' =
            IF ok
            THEN [Answer(vm_task, TRUE, "repoint", "image")
                    EXCEPT !.vm = ToVmSpec(MintedRow)]
            ELSE Answer(vm_task, FALSE, "repoint", "done")
       /\ objects' =
            IF ok
            THEN [objects EXCEPT ![vm_task.vm.vm_key].spec_key = MintedRow.key]
            ELSE objects
  /\ UNCHANGED pipe_vars
  /\ UNCHANGED aux_vars
  /\ UNCHANGED <<status, processes, containers, events, tasks, specs, minted>>

\* vm.rs:245  VmImageDb::read_by_pk(vm.spec.disk.image)
PutImage ==
  /\ vm_task.pc = "image"
  /\ \E ok \in BOOLEAN : vm_task' = Answer(vm_task, ok, "image", "create")
  /\ UNCHANGED pipe_vars
  /\ UNCHANGED aux_vars
  /\ UNCHANGED <<status, processes, containers, events, tasks,
                 specs, objects, minted>>

\* vm.rs:246, 167-168  create_instance: the container "<vm_key>.v" and its
\* Process row are created.
PutCreate ==
  /\ vm_task.pc = "create"
  /\ \E ok \in BOOLEAN :
       /\ vm_task' = Answer(vm_task, ok, "create", "start")
       /\ containers' =
            IF ok THEN [containers EXCEPT ![VmProc] = "exited"] ELSE containers
       /\ processes' =
            IF ok THEN <<[key |-> VmProc, running |-> "false"]>> ELSE processes
  /\ UNCHANGED pipe_vars
  /\ UNCHANGED aux_vars
  /\ UNCHANGED <<status, events, tasks, specs, objects, minted>>

\* vm.rs:247-250  utils::process::start_by_kind(Vm, vm_key), then the
\* Update action is emitted for the VM and put returns it.
PutStart ==
  /\ vm_task.pc = "start"
  /\ \E ok \in BOOLEAN :
       /\ vm_task' =
            IF ok
            THEN [Answer(vm_task, TRUE, "start", "done")
                    EXCEPT !.res = "Ok", !.log = Append(@, "emit_Update")]
            ELSE Answer(vm_task, FALSE, "start", "done")
       /\ containers' =
            IF ok /\ containers[VmProc] # "absent"
            THEN [containers EXCEPT ![VmProc] = "running"]
            ELSE containers
       /\ processes' = IF ok THEN Synced(processes, "running") ELSE processes
       /\ events' = IF ok THEN Append(events, "Update") ELSE events
  /\ UNCHANGED pipe_vars
  /\ UNCHANGED aux_vars
  /\ UNCHANGED <<status, tasks, specs, objects, minted>>

\* Variant: the delete statement carries no kind_key condition.
DelByAnyKindKey(key) == {}

\* Variant: the delete statement compares kind_name, not kind_key, with
\* the value of the kind_key condition.
GenDelQueryByKindName(kind_key, version) ==
  { r \in specs : /\ kind_key # None => r.kind_name = kind_key
                  /\ version # None => r.version = version }

\* spec.rs:24-44  SpecDb::gen_del_query: the rows the delete statement
\* matches; only the kind_key and version conditions of the filter are read
\* (a condition that is None is not in the filter).
GenDelQuery(kind_key, version) ==
  { r \in specs : /\ kind_key # None => r.kind_key = kind_key
                  /\ version # None => r.version = version }

\* spec.rs:82-86  SpecDb::del_by_kind_key: the rows that are left by
\* del_by with the filter `kind_key = key`.
DelByKindKey(key) == specs \ GenDelQuery(key, None)

\* The deletion cascade of object `key`: every Spec of that kind_key is
\* deleted by del_by_kind_key and the row of the object is removed.
DeleteObject ==
  /\ CanArrive
  /\ \E key \in { k \in ObjKeys : objects[k] # NoObject }, ok \in BOOLEAN :
       /\ vm_task' =
            IF ok
            THEN [Answer(NewVmTask("delete", key, ""), TRUE, "delete", "done")
                    EXCEPT !.res = "Ok"]
            ELSE Answer(NewVmTask("delete", key, ""), FALSE, "delete", "done")
       /\ specs' = IF ok THEN DelByKindKey(key) ELSE specs
       /\ objects' = IF ok THEN [objects EXCEPT ![key] = NoObject] ELSE objects
  /\ UNCHANGED pipe_vars
  /\ UNCHANGED aux_vars
  /\ UNCHANGED <<status, processes, containers, events, tasks, minted>>

\* The VM has no process yet, or one whose container runs or has exited.
InitVm ==
  /\ \E n \in 0..1 : processes \in RowSeqs(n)
  /\ containers \in [ProcKeys -> {"running", "exited", "absent"}]
  /\ \A k \in ProcKeys :
       IF k <= Len(processes)
       THEN /\ containers[k] # "absent"
            /\ containers[k] = "running" <=> processes[k].running = "true"
       ELSE containers[k] = "absent"
  /\ status = IF containers[VmProc] = "running" THEN RunningRow ELSE CreatedRow
  /\ events = <<>>
  /\ tasks = EmptyBag
  /\ StoreInit(BasePartial)
  /\ PipeInit(NoDoc, NoWorld)

NextVm ==
  \/ PatchRead(PatchUpdates)
  \/ PatchReadSpec
  \/ PutRead(PutPartials)
  \/ PutStop
  \/ PutRemove
  \/ PutMint
  \/ PutRepoint
  \/ PutImage
  \/ PutCreate
  \/ PutStart
  \/ DeleteObject

SpecVm == InitVm /\ [][NextVm]_vars

\* The VM was created from any partial; it has no process yet.
InitMerge ==
  /\ processes = <<>>
  /\ containers = [k \in ProcKeys |-> "absent"]
  /\ status = CreatedRow
  /\ events = <<>>
  /\ tasks = EmptyBag
  /\ \E partial \in AllPartials : StoreInit(partial)
  /\ PipeInit(NoDoc, NoWorld)

\* One patch request per run: what is explored is the merge, not the queue.
NextMerge ==
  \/ vm_task.pc = "idle" /\ PatchRead(AllUpdates)
  \/ PatchReadSpec

SpecMerge == InitMerge /\ [][NextMerge]_vars

(***************************************************************************)
(* Properties                                                              *)
(***************************************************************************)

Tasks == BagToSet(tasks)

\* Number of tasks (with multiplicity) that satisfy P.
CountTasks(P(_)) ==
  BagCardinality([q \in { t \in Tasks : P(t) } |-> tasks[q]])

\* Positions of the entries of a kind in the history of task q.
LogAt(q, kind) == { k \in 1..Len(q.log) : q.log[k].kind = kind }

Did(q, kind) == LogAt(q, kind) # {}

WroteStatus(q) == Did(q, "write")

\* The flag of a Process row says the container runs.
RowRuns(p) == p.running = "true"

\* C1: of the start requests on one object that is not Running, exactly one
\* writes actual=Starting and emits Starting; all others are no-ops.  Stated
\* on the whole run: at most one task ever performs the status write and at
\* most one Starting event reaches the bus.
C1_SingleStartingTransition ==
  /\ CountTasks(WroteStatus) <= 1
  /\ Cardinality({ k \in 1..Len(events) : events[k] = "Starting" }) <= 1

\* C2: a start that reads actual = Running returns success and does nothing
\* else: no status write, no event, no runtime call, no row change.
C2_StartOnRunningIsNoOp ==
  \A q \in Tasks :
    (q.op = "start" /\ q.current_status.actual = "Running") =>
      /\ q.pc = "done"
      /\ q.res = "Ok"
      /\ q.log = <<>>

C2_Witness ==
  \E q \in Tasks :
    /\ q.op = "start" /\ q.pc = "done"
    /\ q.current_status = RunningRow
    /\ status = RunningRow

\* C3: a start that read actual # Running writes once, and the row it writes
\* is wanted=Running, actual=Starting with prev_wanted and prev_actual the
\* values it read; its Starting event comes after that write in its history.
C3_StartWritesThenEmits ==
  \A q \in Tasks :
    q.op = "start" =>
      /\ Cardinality(LogAt(q, "write")) <= 1
      /\ \A k \in LogAt(q, "write") :
           q.log[k].row =
             [wanted |-> "Running", actual |-> "Starting",
              prev_wanted |-> q.current_status.wanted,
              prev_actual |-> q.current_status.actual]
      /\ \A k \in LogAt(q, "emit") :
           /\ q.log[k].arg = "Starting"
           /\ \E j \in LogAt(q, "write") : j < k
      /\ (q.pc = "emit" \/ (q.pc = "done" /\ q.res = "Ok" /\ ~AlreadyRunning(q.current_status)))
           => WroteStatus(q)

C3_Witness ==
  \E q \in Tasks :
    /\ q.op = "start" /\ q.pc = "done" /\ q.res = "Ok"
    /\ q.current_status = StoppedRow
    /\ Did(q, "write") /\ Did(q, "emit")

\* C4: status mutation is serialised per object, so the prev_* values a start
\* writes are the values the row held immediately before the write.
C4_PrevIsRowBeforeWrite ==
  \A q \in Tasks :
    \A k \in LogAt(q, "write") :
      /\ q.log[k].row.prev_wanted = q.log[k].old.wanted
      /\ q.log[k].row.prev_actual = q.log[k].old.actual

\* C5: whenever the status row says actual = Running, some Process row of
\* the object reports running = true.
C5_RunningHasRunningProcess ==
  status.actual = "Running" =>
    \E k \in 1..Len(processes) : RowRuns(processes[k])

\* Task q went through its stop loop without a failing runtime call.
StopNoRuntimeFailure(q) ==
  q.op = "stop" /\ q.pc = "done" /\ q.res # "RuntimeErr" /\ q.i >= 1

\* C6: a stop in which no runtime call fails issues a runtime stop for every
\* row it read as running, wherever the rows that are not running stand.
C6_StopReachesEveryRunning ==
  \A q \in Tasks :
    StopNoRuntimeFailure(q) =>
      \A k \in 1..Len(q.processes) :
        RowRuns(q.processes[k]) =>
          \E j \in LogAt(q, "stop") : q.log[j].arg = q.processes[k].key

\* C7: a stop that returns success emitted exactly one Stopping event, as
\* the last of its effects, also when it skipped rows that are not running.
C7_StopEmitsOnceAfterLoop ==
  \A q \in Tasks :
    (q.op = "stop" /\ q.pc = "done" /\ q.res = "Ok") =>
      /\ LogAt(q, "emit") = {Len(q.log)}
      /\ q.log[Len(q.log)].arg = "Stopping"

\* C8: a failing runtime stop ends the operation with that error: it is the
\* last effect of the task (no later stop, no Stopping event) and the task
\* never wrote the status row.
C8_StopAbortsOnRuntimeError ==
  \A q \in Tasks :
    \A k \in LogAt(q, "stop_err") :
      /\ q.pc = "done"
      /\ q.res = "RuntimeErr"
      /\ k = Len(q.log)
      /\ ~WroteStatus(q)

C8_Witness ==
  \E q \in Tasks :
    /\ Did(q, "stop_err")
    /\ q.i < Len(q.processes)
    /\ RowRuns(q.processes[Len(q.processes)])

\* Task q read Process rows none of which is running (or no row at all).
ReadAllStopped(q) ==
  q.op = "stop" /\ q.i >= 1 /\ \A k \in 1..Len(q.processes) : ~RowRuns(q.processes[k])

C10_RowGoneOnReturn ==
  \A q \in Tasks :
    (q.op = "del" /\ q.pc = "done") =>
      \A k \in 1..Len(processes) : processes[k].key # q.pk

\* C10 amended: after a runtime success or 404 the task goes on to delete the
\* row, and the row is gone when it returns Ok; after any other runtime error
\* it returns that error and deletes nothing.
C10_RowGoneUnlessRuntimeError ==
  \A q \in Tasks :
    q.op = "del" =>
      /\ (q.pc = "done" /\ q.res = "Ok") =>
           /\ Did(q, "del_row")
           /\ \A k \in 1..Len(processes) : processes[k].key # q.pk
      /\ q.log[1].kind = "remove_err" =>
           (q.pc = "done" /\ q.res = "RuntimeErr" /\ Len(q.log) = 1)
      /\ q.log[1].kind \in {"remove_ok", "remove_404"} =>
           (q.pc = "del_row" \/ (q.pc = "done" /\ q.res \in {"Ok", "StoreErr"}))
      /\ \A k \in LogAt(q, "del_row") : k = 2

C10_Witness ==
  \E q \in Tasks :
    /\ q.op = "del" /\ q.pc = "done" /\ q.res = "RuntimeErr"
    /\ \E k \in 1..Len(processes) : processes[k].key = q.pk

\* C11: a runtime 404 counts as success for del_process_by_pk: the task goes
\* on to delete the row and returns Ok (unless the store delete fails), so a
\* second del of the same pk succeeds too; and a task deletes the row only
\* after it made its runtime remove call.
C11_Del404IsSuccess ==
  \A q \in Tasks :
    q.op = "del" =>
      /\ (q.log[1].kind = "remove_404" /\ q.pc = "done") =>
           /\ q.res \in {"Ok", "StoreErr"}
           /\ q.res = "Ok" <=> Did(q, "del_row")
           /\ q.res = "Ok" => \A k \in 1..Len(processes) : processes[k].key # q.pk
      /\ \A k \in LogAt(q, "del_row") :
           k > 1 /\ q.log[1].kind \in {"remove_ok", "remove_404"}
      /\ q.log[1].kind = "remove_404" => containers[q.pk] = "absent"

C11_Witness ==
  \E q \in Tasks, n \in Tasks :
    /\ q.op = "del" /\ n.op = "del" /\ q.pk = n.pk
    /\ q.pc = "done" /\ q.res = "Ok" /\ q.log[1].kind = "remove_ok"
    /\ n.pc = "done" /\ n.res = "Ok" /\ n.log[1].kind = "remove_404"

\* A start task that returned an error.
StartFailed(q) == q.op = "start" /\ q.pc = "done" /\ q.res # "Ok"

\* C12 as stated: a start that returns an error never wrote the status row
\* and emitted no Starting event.
C12_FailedStartLeavesRow ==
  \A q \in Tasks : StartFailed(q) => (~WroteStatus(q) /\ ~Did(q, "emit"))

\* C12 amended: a start that returns an error emitted no Starting event; it
\* wrote the status row only when the failure is the one of the emission
\* step, and then the row it wrote (Running, Starting, read values) stays.
C12_FailedStartEmitsNothing ==
  \A q \in Tasks :
    StartFailed(q) =>
      /\ q.res = "StoreErr"
      /\ ~Did(q, "emit")
      /\ \A k \in 1..Len(q.log) :
           /\ q.log[k].kind = "write"
           /\ q.log[k].row.actual = "Starting"
           /\ q.log[k].row.wanted = "Running"
      /\ (CountTasks(WroteStatus) = 1 /\ WroteStatus(q)) =>
           status = q.log[1].row

C12_Witness ==
  \E q \in Tasks :
    /\ StartFailed(q) /\ WroteStatus(q)
    /\ status.actual = "Starting"
    /\ events = <<>>

\* C13: a restart in which nothing fails issues one runtime restart per row
\* it read, in order, and then emits one Restart event as its last effect;
\* a failing restart call is the last effect of the task, which returns the
\* error and emits nothing.
C13_RestartEachThenEmit ==
  \A q \in Tasks :
    q.op = "restart" =>
      /\ (q.pc = "done" /\ q.res = "Ok") =>
           /\ Len(q.log) = Len(q.processes) + 1
           /\ \A k \in 1..Len(q.processes) :
                q.log[k].kind = "restart" /\ q.log[k].arg = q.processes[k].key
           /\ q.log[Len(q.log)].kind = "emit"
           /\ q.log[Len(q.log)].arg = "Restart"
      /\ \A k \in LogAt(q, "restart_err") :
           /\ k = Len(q.log)
           /\ q.pc = "done" /\ q.res = "RuntimeErr"
           /\ q.i < Len(q.processes) =>
                \A j \in 1..Len(q.log) : q.log[j].arg # q.processes[Len(q.processes)].key
      /\ \A k \in LogAt(q, "emit") : ~Did(q, "restart_err")

C13_Witness ==
  /\ \E q \in Tasks :
       /\ q.op = "restart" /\ q.pc = "done" /\ q.res = "Ok"
       /\ Len(q.processes) = MaxProcs
  /\ \E q \in Tasks :
       /\ q.op = "restart" /\ Did(q, "restart_err") /\ q.i < Len(q.processes)

\* C14: a restart moves the status row (actual through Stopping, Starting,
\* Running) and records in prev_wanted and prev_actual the values the row
\* held before: a restart that returned success wrote the row, and its first
\* write carries the former values in the prev_* fields.
C14_RestartWritesStatus ==
  \A q \in Tasks :
    (q.op = "restart" /\ q.pc = "done" /\ q.res = "Ok") =>
      /\ WroteStatus(q)
      /\ \A k \in LogAt(q, "write") :
           (\A j \in LogAt(q, "write") : k <= j) =>
             /\ q.log[k].row.actual = "Stopping"
             /\ q.log[k].row.prev_wanted = q.log[k].old.wanted
             /\ q.log[k].row.prev_actual = q.log[k].old.actual

\* C15: kill forwards the kill, with the caller's options, to the rows it
\* read, in order; it emits nothing and writes neither the status row nor a
\* Process row; a failing kill call is its last effect and is returned.
C15_KillOnlyForwards ==
  \A q \in Tasks :
    q.op = "kill" =>
      /\ \A k \in 1..Len(q.log) :
           /\ q.log[k].kind \in {"kill", "kill_err"}
           /\ q.log[k].arg = q.processes[k].key
           /\ q.log[k].opts = q.opts
      /\ (q.pc = "done" /\ q.res = "Ok") => Len(q.log) = Len(q.processes)
      /\ \A k \in LogAt(q, "kill_err") :
           k = Len(q.log) /\ q.pc = "done" /\ q.res = "RuntimeErr"
      /\ q.pc # "emit"

C15_Witness ==
  /\ \E q \in Tasks :
       /\ q.op = "kill" /\ q.pc = "done" /\ q.res = "Ok" /\ q.opts = "SIGHUP"
       /\ Len(q.processes) = MaxProcs
  /\ \E q \in Tasks :
       /\ q.op = "kill" /\ Did(q, "kill_err") /\ q.i < Len(q.processes)
  /\ events = <<>>

(***************************************************************************)
(* The state pipeline (utils/state.rs): apply_deployment creates or        *)
(* updates and starts the cargoes of a document, then its resources; the   *)
(* items of one list are futures that run concurrently.  revert_deployment *)
(* is a spawned task that deletes them in a loop.  Both publish their      *)
(* progress on a channel whose receiver the client may drop at any time.   *)
(* One request runs at a time; the document is fixed for a run of the      *)
(* model and the requests of the run are applies and reverts of it.        *)
(***************************************************************************)

\* StateStream::Msg(text) and StateStream::Error(text)
Msg(text) == [kind |-> "Msg", text |-> text]
Error(text) == [kind |-> "Error", text |-> text]

\* format!("{0}", data.len())
Str(n) ==
  CASE n = 0 -> "0" [] n = 1 -> "1" [] n = 2 -> "2" [] n = 3 -> "3" [] n = 4 -> "4"

\* What a step yields: the request after the step and the messages it sent.
Out(p, m) == [p |-> p, m |-> m]

\* The request records a call it issues, and a call that failed.
Issue(p, call) == [p EXCEPT !.log = Append(@, call)]
Failed(p, call) == [p EXCEPT !.failed = @ \cup {call}]

\* The request returns.
Finished(p, res) == [p EXCEPT !.pc = "done", !.res = res]

\* sx.send(..): the message arrives when the receiver exists, the send
\* fails when it was dropped.
Publish(r) ==
  /\ progress' = IF rx_alive THEN progress \o r.m ELSE progress
  /\ pipe' = [r.p EXCEPT !.send_failed = @ \/ (r.m # <<>> /\ ~rx_alive)]

\* The calls a request makes for the cargoes and for the resources of doc.
CargoCalls(doc) ==
  { c \o " " \o doc.cargoes[k] :
      c \in {"create_or_put", "start", "delete_cargo"}, k \in 1..Len(doc.cargoes) }
ResourceCalls(doc) ==
  { c \o " " \o doc.resources[k] :
      c \in {"create_or_patch", "delete_resource"}, k \in 1..Len(doc.resources) }

\* The list a run handled first: the list of the first call it issued.
FirstList(p) ==
  IF p.log = <<>> THEN "none"
  ELSE IF p.log[1] \in CargoCalls(p.doc) THEN "cargoes" ELSE "resources"

\* A run without any failure: it returned Ok, no call failed, no send failed.
Clean ==
  /\ pipe.pc = "done" /\ pipe.res = "Ok"
  /\ pipe.failed = {} /\ ~pipe.send_failed

\* A request arrives when no other is served: its channel is created.
\* The client goes on to a next request only after a run without failure.
Request(op) ==
  /\ pipe.pc = "idle" \/ Clean
  /\ pipe.runs < MaxRuns
  /\ pipe' = [pipe EXCEPT !.op = op, !.pc = "new", !.items = <<>>, !.i = 0,
                          !.res = "none", !.send_failed = FALSE, !.log = <<>>,
                          !.failed = {}, !.runs = @ + 1, !.before = world,
                          !.prev = [op |-> pipe.op, clean |-> Clean,
                                    first |-> FirstList(pipe),
                                    before |-> pipe.before, after |-> world]]
  /\ progress' = <<>>
  /\ rx_alive' = TRUE
  /\ spawned' = {}
  /\ UNCHANGED <<world, events>>
  /\ UNCHANGED <<status, processes, containers, tasks>>
  /\ UNCHANGED store_vars
  /\ UNCHANGED aux_vars

\* The client drops the receiver of the progress stream.
DropReceiver ==
  /\ pipe.pc \notin {"idle", "done"}
  /\ rx_alive
  /\ rx_alive' = FALSE
  /\ UNCHANGED <<world, pipe, progress, spawned, events>>
  /\ UNCHANGED <<status, processes, containers, tasks>>
  /\ UNCHANGED store_vars
  /\ UNCHANGED aux_vars

\* ---- apply_deployment ----

NewItems(list) == [k \in 1..Len(list) |-> "new"]

\* Variant: the pipeline goes on as soon as one item of the list has finished.
AnyFinished(items) ==
  items = <<>> \/ \E k \in 1..Len(items) : items[k] \in {"done", "failed"}

\* state.rs:87-89, 131-133  .collect::<FuturesUnordered<_>>()
\* .collect::<Vec<_>>().await returns when every future of the list has.
AllFinished(items) == \A k \in 1..Len(items) : items[k] \in {"done", "failed"}

\* state.rs:208-212, 97-100  the resources of the document, then Ok(())
EnterResources(p) ==
  IF p.doc.has_resources
  THEN LET q == [p EXCEPT !.pc = "resources", !.items = NewItems(p.doc.resources)]
           h == <<Msg("Creating " \o Str(Len(p.doc.resources)) \o " resources")>>
       IN  IF AllFinished(q.items) THEN Out(Finished(q, "Ok"), h) ELSE Out(q, h)
  ELSE Out(Finished(p, "Ok"), <<>>)

\* state.rs:204-206, 28-31  the cargoes of the document come first
EnterCargoes(p) ==
  IF p.doc.has_cargoes
  THEN LET q == [p EXCEPT !.pc = "cargoes", !.items = NewItems(p.doc.cargoes)]
           h == <<Msg("Creating " \o Str(Len(p.doc.cargoes))
                      \o " cargoes in namespace: " \o NamespaceOf(p.doc))>>
       IN  IF AllFinished(q.items)
           THEN Out(EnterResources(q).p, h \o EnterResources(q).m)
           ELSE Out(q, h)
  ELSE EnterResources(p)

\* An item has finished: when it was the last of its list the pipeline goes
\* on with the next list, or returns.
Advance(p) ==
  IF ~AllFinished(p.items) THEN Out(p, <<>>)
  ELSE IF p.pc = "cargoes" THEN EnterResources(p)
  ELSE Out(Finished(p, "Ok"), <<>>)

\* Variant: create-or-update always creates: when the name is taken a second
\* object is added next to the first.
CreateAlways(objs, key) ==
  IF key \in objs THEN objs \cup {key \o "-2"} ELSE objs \cup {key}

\* utils::cargo::create_or_put, utils::resource::create_or_patch and
\* utils::namespace::create_if_not_exists: a lookup by name decides whether
\* the object is created or the existing one updated.
CreateOrUpdate(objs, key) == IF key \in objs THEN objs ELSE objs \cup {key}

\* state.rs:197-206  the namespace of the document is created when it does
\* not exist (a failure is returned to the caller), then the first list begins.
ApplyNamespace ==
  /\ pipe.op = "apply" /\ pipe.pc = "new"
  /\ \E ok \in BOOLEAN :
       IF pipe.doc.namespace # None /\ ~ok
       THEN /\ Publish(Out(Finished(Failed(pipe, "create_namespace"), "Err"), <<>>))
            /\ UNCHANGED world
       ELSE /\ Publish(EnterCargoes(pipe))
            /\ world' = [world EXCEPT !.namespaces =
                           CreateOrUpdate(@, NamespaceOf(pipe.doc))]
  /\ UNCHANGED <<rx_alive, spawned, events>>
  /\ UNCHANGED <<status, processes, containers, tasks>>
  /\ UNCHANGED store_vars
  /\ UNCHANGED aux_vars

\* Variant: a failed call ends the whole apply with the error.
ItemFailedAborts(p, k, call) ==
  Out(Finished(Failed([p EXCEPT !.items[k] = "failed"], call), "Err"), <<>>)

\* state.rs:41-46, 67-72, 110-115  the item reports the error of the call
\* and is finished.
ItemFailed(p, k, call) ==
  LET r == Advance(Failed([p EXCEPT !.items[k] = "failed"], call))
  IN  Out(r.p, <<Error(call)>> \o r.m)

\* state.rs:35-39  a cargo future is polled: it announces the cargo and
\* calls create_or_put.
CargoBegin ==
  /\ pipe.op = "apply" /\ pipe.pc = "cargoes"
  /\ \E k \in DOMAIN pipe.items :
       /\ pipe.items[k] = "new"
       /\ Publish(Out(Issue([pipe EXCEPT !.items[k] = "create"],
                            "create_or_put " \o pipe.doc.cargoes[k]),
                      <<Msg("Creating Cargo " \o pipe.doc.cargoes[k])>>))
  /\ UNCHANGED <<world, rx_alive, spawned, events>>
  /\ UNCHANGED <<status, processes, containers, tasks>>
  /\ UNCHANGED store_vars
  /\ UNCHANGED aux_vars

\* Variant: Created is announced whatever create_or_put answered.
CargoCreatedMsgAlways(p, k, ok) ==
  IF ok
  THEN Out(Issue([p EXCEPT !.items[k] = "start"], "start " \o p.doc.cargoes[k]),
           <<Msg("Created Cargo " \o p.doc.cargoes[k])>>)
  ELSE LET r == ItemFailed(p, k, "create_or_put " \o p.doc.cargoes[k])
       IN  Out(r.p, <<Msg("Created Cargo " \o p.doc.cargoes[k])>> \o r.m)

\* state.rs:38-65  create_or_put has answered
CargoCreatedOut(p, k, ok) ==
  IF ok
  THEN Out(Issue([p EXCEPT !.items[k] = "start"], "start " \o p.doc.cargoes[k]),
           <<Msg("Created Cargo " \o p.doc.cargoes[k])>>)
  ELSE ItemFailed(p, k, "create_or_put " \o p.doc.cargoes[k])

\* state.rs:38-65  create_or_put returns: on success the cargo exists, it is
\* announced as created, the CargoPatched emission is spawned and start is
\* called.
CargoCreated ==
  /\ pipe.op = "apply" /\ pipe.pc = "cargoes"
  /\ \E k \in DOMAIN pipe.items, ok \in BOOLEAN :
       /\ pipe.items[k] = "create"
       /\ Publish(CargoCreatedOut(pipe, k, ok))
       /\ world' =
            IF ok
            THEN [world EXCEPT !.cargoes =
                    CreateOrUpdate(@, GenKey(NamespaceOf(pipe.doc),
                                             pipe.doc.cargoes[k]))]
            ELSE world
       /\ spawned' =
            IF ok THEN spawned \cup {"CargoPatched " \o pipe.doc.cargoes[k]}
            ELSE spawned
  /\ UNCHANGED <<rx_alive, events>>
  /\ UNCHANGED <<status, processes, containers, tasks>>
  /\ UNCHANGED store_vars
  /\ UNCHANGED aux_vars

\* state.rs:61-85  start has answered
CargoStartedOut(p, k, ok) ==
  IF ok
  THEN LET r == Advance([p EXCEPT !.items[k] = "done"])
       IN  Out(r.p, <<Msg("Started Cargo " \o p.doc.cargoes[k])>> \o r.m)
  ELSE ItemFailed(p, k, "start " \o p.doc.cargoes[k])

\* state.rs:61-85  start returns: on success the cargo is announced as
\* started and the CargoStarted emission is spawned.
CargoStarted ==
  /\ pipe.op = "apply" /\ pipe.pc = "cargoes"
  /\ \E k \in DOMAIN pipe.items, ok \in BOOLEAN :
       /\ pipe.items[k] = "start"
       /\ Publish(CargoStartedOut(pipe, k, ok))
       /\ spawned' =
            IF ok THEN spawned \cup {"CargoStarted " \o pipe.doc.cargoes[k]}
            ELSE spawned
  /\ UNCHANGED <<world, rx_alive, events>>
  /\ UNCHANGED <<status, processes, containers, tasks>>
  /\ UNCHANGED store_vars
  /\ UNCHANGED aux_vars

\* state.rs:104-109  a resource future is polled
ResourceBegin ==
  /\ pipe.op = "apply" /\ pipe.pc = "resources"
  /\ \E k \in DOMAIN pipe.items :
       /\ pipe.items[k] = "new"
       /\ Publish(Out(Issue([pipe EXCEPT !.items[k] = "create"],
                            "create_or_patch " \o pipe.doc.resources[k]),
                      <<Msg("Creating Resource " \o pipe.doc.resources[k])>>))
  /\ UNCHANGED <<world, rx_alive, spawned, events>>
  /\ UNCHANGED <<status, processes, containers, tasks>>
  /\ UNCHANGED store_vars
  /\ UNCHANGED aux_vars

\* state.rs:108-129  create_or_patch has answered
ResourceCreatedOut(p, k, ok) ==
  IF ok
  THEN LET r == Advance([p EXCEPT !.items[k] = "done"])
       IN  Out(r.p, <<Msg("Created Resource " \o p.doc.resources[k])>> \o r.m)
  ELSE ItemFailed(p, k, "create_or_patch " \o p.doc.resources[k])

\* state.rs:108-129  create_or_patch returns
ResourceCreated ==
  /\ pipe.op = "apply" /\ pipe.pc = "resources"
  /\ \E k \in DOMAIN pipe.items, ok \in BOOLEAN :
       /\ pipe.items[k] = "create"
       /\ Publish(ResourceCreatedOut(pipe, k, ok))
       /\ world' =
            IF ok THEN [world EXCEPT !.resources =
                         CreateOrUpdate(@, pipe.doc.resources[k])]
            ELSE world
       /\ spawned' =
            IF ok THEN spawned \cup {"ResourcePatched " \o pipe.doc.resources[k]}
            ELSE spawned
  /\ UNCHANGED <<rx_alive, events>>
  /\ UNCHANGED <<status, processes, containers, tasks>>
  /\ UNCHANGED store_vars
  /\ UNCHANGED aux_vars

\* ---- revert_deployment ----
\* `alive` says whether a send succeeds; after a failed send the task
\* leaves the loop it is in (break) or returns.

\* state.rs:341-352  the top of the loop over the resources, at index j
RevertResource(p, j, alive) ==
  IF j > Len(p.doc.resources) THEN Out(Finished(p, "Ok"), <<>>)
  ELSE LET m == <<Msg("Deleting Resource " \o p.doc.resources[j])>>
       IN  IF alive THEN Out([p EXCEPT !.pc = "resource_inspect", !.i = j], m)
           ELSE Out(Finished(p, "Ok"), m)

\* state.rs:329-340, 391  after the cargoes: the resources of the document
RevertResources(p, alive) ==
  IF ~p.doc.has_resources THEN Out(Finished(p, "Ok"), <<>>)
  ELSE LET h == <<Msg("Deleting " \o Str(Len(p.doc.resources)) \o " resources")>>
       IN  IF alive
           THEN Out(RevertResource(p, 1, alive).p, h \o RevertResource(p, 1, alive).m)
           ELSE Out(Finished(p, "Ok"), h)

\* state.rs:275-278  the top of the loop over the cargoes, at index i
RevertCargo(p, i, alive) ==
  IF i > Len(p.doc.cargoes) THEN RevertResources(p, alive)
  ELSE Out([p EXCEPT !.pc = "cargo_inspect", !.i = i], <<>>)

\* state.rs:263-274  the spawned task begins with the cargoes
RevertBeginOut(p, alive) ==
  IF ~p.doc.has_cargoes THEN RevertResources(p, alive)
  ELSE LET h == <<Msg("Deleting " \o Str(Len(p.doc.cargoes))
                      \o " cargoes in namespace " \o NamespaceOf(p.doc))>>
       IN  IF alive
           THEN Out(RevertCargo(p, 1, alive).p, h \o RevertCargo(p, 1, alive).m)
           ELSE Out(Finished(p, "Ok"), h)

\* state.rs:256-278  the task of revert_deployment is polled for the first time
RevertBegin ==
  /\ pipe.op = "revert" /\ pipe.pc = "new"
  /\ Publish(RevertBeginOut(pipe, rx_alive))
  /\ UNCHANGED <<world, rx_alive, spawned, events>>
  /\ UNCHANGED <<status, processes, containers, tasks>>
  /\ UNCHANGED store_vars
  /\ UNCHANGED aux_vars

\* Variant: a cargo that is not found is deleted all the same.
CargoInspectedNoSkip(p, found, alive) ==
  LET name == p.doc.cargoes[p.i]
      m == <<Msg("Deleting Cargo " \o name)>>
  IN  IF alive
      THEN Out(Issue([p EXCEPT !.pc = "cargo_delete"], "delete_cargo " \o name), m)
      ELSE Out(RevertResources(p, alive).p, m \o RevertResources(p, alive).m)

\* state.rs:278-305  utils::cargo::inspect has answered
CargoInspected(p, found, alive) ==
  LET name == p.doc.cargoes[p.i]
  IN  IF ~found
      THEN LET m == <<Msg("Skipping Cargo " \o name \o " [NOT FOUND]")>>
               r == IF alive THEN RevertCargo(p, p.i + 1, alive)
                    ELSE RevertResources(p, alive)
           IN  Out(r.p, m \o r.m)
      ELSE LET m == <<Msg("Deleting Cargo " \o name)>>
           IN  IF alive
               THEN Out(Issue([p EXCEPT !.pc = "cargo_delete"],
                              "delete_cargo " \o name), m)
               ELSE Out(RevertResources(p, alive).p,
                        m \o RevertResources(p, alive).m)

\* The cargo the loop is at, and whether the store holds it.
CargoAt(p) == GenKey(NamespaceOf(p.doc), p.doc.cargoes[p.i])

\* state.rs:278-305  inspect returns: any error counts as not found
RevertCargoInspect ==
  /\ pipe.op = "revert" /\ pipe.pc = "cargo_inspect"
  /\ \E ok \in BOOLEAN :
       LET exists == CargoAt(pipe) \in world.cargoes
           p == IF exists /\ ~ok
                THEN Failed(pipe, "inspect_cargo " \o pipe.doc.cargoes[pipe.i])
                ELSE pipe
       IN  Publish(CargoInspected(p, exists /\ ok, rx_alive))
  /\ UNCHANGED <<world, rx_alive, spawned, events>>
  /\ UNCHANGED <<status, processes, containers, tasks>>
  /\ UNCHANGED store_vars
  /\ UNCHANGED aux_vars

\* state.rs:305-326  utils::cargo::delete has answered: `?` ends the task
\* on an error
CargoDeleted(p, ok, alive) ==
  LET name == p.doc.cargoes[p.i]
  IN  IF ~ok THEN Out(Finished(Failed(p, "delete_cargo " \o name), "Err"), <<>>)
      ELSE LET m == <<Msg("Deleted Cargo " \o name)>>
               r == IF alive THEN RevertCargo(p, p.i + 1, alive)
                    ELSE RevertResources(p, alive)
           IN  Out(r.p, m \o r.m)

\* state.rs:305-326  delete returns: the cargo is gone, it is announced as
\* deleted and the CargoDeleted emission is spawned.
RevertCargoDelete ==
  /\ pipe.op = "revert" /\ pipe.pc = "cargo_delete"
  /\ \E ok \in BOOLEAN :
       /\ Publish(CargoDeleted(pipe, ok, rx_alive))
       /\ world' = IF ok THEN [world EXCEPT !.cargoes = @ \ {CargoAt(pipe)}]
                   ELSE world
       /\ spawned' =
            IF ok /\ rx_alive
            THEN spawned \cup {"CargoDeleted " \o pipe.doc.cargoes[pipe.i]}
            ELSE spawned
  /\ UNCHANGED <<rx_alive, events>>
  /\ UNCHANGED <<status, processes, containers, tasks>>
  /\ UNCHANGED store_vars
  /\ UNCHANGED aux_vars

\* state.rs:353-371  repositories::resource::inspect_by_key has answered
ResourceInspected(p, found, alive) ==
  LET name == p.doc.resources[p.i]
  IN  IF ~found
      THEN LET m == <<Msg("Skipping Resource " \o name \o " [NOT FOUND]")>>
           IN  IF alive
               THEN Out(RevertResource(p, p.i + 1, alive).p,
                        m \o RevertResource(p, p.i + 1, alive).m)
               ELSE Out(Finished(p, "Ok"), m)
      ELSE Out(Issue([p EXCEPT !.pc = "resource_delete"],
                     "delete_resource " \o name), <<>>)

\* state.rs:353-371  inspect_by_key returns: any error counts as not found
RevertResourceInspect ==
  /\ pipe.op = "revert" /\ pipe.pc = "resource_inspect"
  /\ \E ok \in BOOLEAN :
       LET exists == pipe.doc.resources[pipe.i] \in world.resources
           p == IF exists /\ ~ok
                THEN Failed(pipe, "inspect_resource " \o pipe.doc.resources[pipe.i])
                ELSE pipe
       IN  Publish(ResourceInspected(p, exists /\ ok, rx_alive))
  /\ UNCHANGED <<world, rx_alive, spawned, events>>
  /\ UNCHANGED <<status, processes, containers, tasks>>
  /\ UNCHANGED store_vars
  /\ UNCHANGED aux_vars

\* state.rs:371-389  utils::resource::delete has answered
ResourceDeleted(p, ok, alive) ==
  LET name == p.doc.resources[p.i]
  IN  IF ~ok THEN Out(Finished(Failed(p, "delete_resource " \o name), "Err"), <<>>)
      ELSE LET m == <<Msg("Deleted Resource " \o name)>>
           IN  IF alive
               THEN Out(RevertResource(p, p.i + 1, alive).p,
                        m \o RevertResource(p, p.i + 1, alive).m)
               ELSE Out(Finished(p, "Ok"), m)

\* state.rs:371-389  delete returns
RevertResourceDelete ==
  /\ pipe.op = "revert" /\ pipe.pc = "resource_delete"
  /\ \E ok \in BOOLEAN :
       /\ Publish(ResourceDeleted(pipe, ok, rx_alive))
       /\ world' =
            IF ok
            THEN [world EXCEPT !.resources = @ \ {pipe.doc.resources[pipe.i]}]
            ELSE world
       /\ spawned' =
            IF ok /\ rx_alive
            THEN spawned \cup {"ResourceDeleted " \o pipe.doc.resources[pipe.i]}
            ELSE spawned
  /\ UNCHANGED <<rx_alive, events>>
  /\ UNCHANGED <<status, processes, containers, tasks>>
  /\ UNCHANGED store_vars
  /\ UNCHANGED aux_vars

\* Any Deployment document, on any world it can meet.
InitState ==
  /\ processes = <<>>
  /\ containers = [k \in ProcKeys |-> "absent"]
  /\ status = CreatedRow
  /\ events = <<>>
  /\ tasks = EmptyBag
  /\ StoreInit(BasePartial)
  /\ \E doc \in Docs : \E w \in Worlds(doc) : PipeInit(doc, w)

NextState ==
  \/ Request("apply")
  \/ Request("revert")
  \/ DropReceiver
  \/ ApplyNamespace
  \/ CargoBegin
  \/ CargoCreated
  \/ CargoStarted
  \/ ResourceBegin
  \/ ResourceCreated
  \/ RevertBegin
  \/ RevertCargoInspect
  \/ RevertCargoDelete
  \/ RevertResourceInspect
  \/ RevertResourceDelete

SpecState == InitState /\ [][NextState]_vars

(***************************************************************************)
(* Properties of the VM update path and of the spec store                  *)
(***************************************************************************)

\* The calls of put, in the order of vm.rs:233-249.
PutCalls ==
  <<"read_vm", "stop", "remove", "mint", "repoint", "image", "create", "start",
    "emit_Update">>

\* The part of a log that put wrote (a patch request reads twice before).
RECURSIVE PutPart(_)
PutPart(l) ==
  IF l = <<>> \/ Head(l) \in {"read_vm", "read_vm_err"} THEN l ELSE PutPart(Tail(l))

Has(l, x) == \E i \in 1..Len(l) : l[i] = x

TheVmRow == CHOOSE r \in specs : r.key = objects[VmKey].spec_key

\* C16: put makes its calls in the order stop, remove, mint and repoint,
\* create, start, emit: the log of a put is a prefix of that order, a failed
\* call is the last entry, and each call finds the effect of the call before
\* it (the container is gone when the revision is minted, the VM points at
\* the new revision when the container is created, the container exists when
\* it is started, the Update event comes with the last call).
C16_PutStepsInOrder ==
  LET l == PutPart(vm_task.log)
  IN  vm_task.op \in {"put", "patch"} =>
        /\ Len(l) <= Len(PutCalls)
        /\ \A i \in 1..Len(l) :
             \/ l[i] = PutCalls[i]
             \/ i = Len(l) /\ l[i] = PutCalls[i] \o "_err" /\ vm_task.pc = "done"
        /\ vm_task.pc \in {"mint", "repoint", "image", "create"} =>
             containers[VmProc] = "absent" /\ processes = <<>>
        /\ vm_task.pc \in {"image", "create", "start"} =>
             /\ objects[VmKey].spec_key = minted
             /\ TheVmRow.data = vm_task.partial
        /\ vm_task.pc = "start" => containers[VmProc] = "exited"
        /\ Has(l, "emit_Update") =>
             /\ vm_task.res = "Ok"
             /\ events # <<>> /\ events[Len(events)] = "Update"
             /\ containers[VmProc] = "running"
        /\ vm_task.res = "Ok" => l = PutCalls

C16_Witness ==
  /\ vm_task.op = "put" /\ vm_task.res = "Ok"
  /\ vm_task.log = PutCalls
  /\ Len(events) = 2

\* C17: a patch whose update has every field absent makes none of the calls
\* stop, remove, create, start, and emits Patched when it succeeds.
C17_EmptyPatchKeepsContainer ==
  (vm_task.op = "patch" /\ vm_task.update = NoUpdate) =>
    /\ \A x \in {"stop", "remove", "create", "start"} : ~Has(vm_task.log, x)
    /\ vm_task.res = "Ok" => (events # <<>> /\ events[Len(events)] = "Patched")

\* The fields a VmSpecUpdate carries.
UpdateFields ==
  {"name", "host_config", "hostname", "user", "password", "ssh_key", "labels",
   "metadata"}

\* C18: when patch has merged, each field of the partial it hands to put is
\* the value of the update where the update has one and the value of the
\* VM's current spec where it has none; disk and mac_address are those of
\* the current spec.
C18_MergeFieldByField ==
  (vm_task.op = "patch" /\ vm_task.pc = "put") =>
    LET old == ToVmSpec(TheVmRow)
        new == vm_task.partial
    IN  /\ \A f \in UpdateFields :
             new[f] = IF vm_task.update[f] # None THEN vm_task.update[f] ELSE old[f]
        /\ new.disk = old.disk
        /\ new.mac_address = old.mac_address

C18_Witness ==
  /\ vm_task.op = "patch" /\ vm_task.pc = "put"
  /\ vm_task.update.labels = None /\ TheVmRow.data.labels = "old"
  /\ vm_task.partial.labels = "old"
  /\ vm_task.update.hostname = "new" /\ TheVmRow.data.hostname = "old"
  /\ vm_task.partial.hostname = "new"
  /\ vm_task.update.host_config = None /\ TheVmRow.data.host_config = None
  /\ vm_task.partial.host_config = DefaultHostConfig

C20_SpecsAppendOnly ==
  [][/\ \A r \in specs : r \in specs' \/ objects'[r.kind_key] = NoObject
     /\ \A r \in specs' \ specs : r.key > minted /\ \A o \in specs : o.key # r.key
     /\ (vm_task.pc = "mint" /\ vm_task'.pc = "repoint") =>
          /\ Cardinality(specs' \ specs) = 1
          /\ specs \subseteq specs']_vars

\* Two revisions of the VM with the same version and the same data, and the
\* cargo has been deleted with its spec.
C20_Witness ==
  /\ objects[CargoKey] = NoObject
  /\ \A r \in specs : r.kind_key = VmKey
  /\ \E r1, r2 \in specs : /\ r1.key # r2.key
                            /\ r1.version = r2.version
                            /\ r1.data = r2.data

\* spec.rs:54-78  SpecDb::gen_read_query: the rows that satisfy every
\* condition the filter carries (a condition that is None is not in the
\* filter).
GenReadQuery(key, kind_key, version) ==
  { r \in specs : /\ key # None => r.key = key
                  /\ kind_key # None => r.kind_key = kind_key
                  /\ version # None => r.version = version }

\* spec.rs:88-97  SpecDb::get_version: the rows read_one_by chooses from;
\* NotFound when there is none.
GetVersion(name, version) == GenReadQuery(None, name, version)

\* C21: at most one Spec row has a given kind_key and version, so that
\* get_version has one row to return or none.
C21_VersionIsUnique ==
  \A k \in ObjKeys, v \in Versions : Cardinality(GetVersion(k, v)) <= 1

(***************************************************************************)
(* Properties of the state pipeline                                        *)
(***************************************************************************)

\* The positions of x in sequence l.
Positions(l, x) == { i \in 1..Len(l) : l[i] = x }

\* Every x of X comes before every y of Y in l.
AllBefore(l, X, Y) ==
  \A i, j \in 1..Len(l) : (l[i] \in X /\ l[j] \in Y) => i < j

\* C22: in an apply, every create-or-update of a resource is issued before
\* the first step of a cargo.
C22_ResourcesBeforeCargoes ==
  pipe.op = "apply" =>
    AllBefore(pipe.log, ResourceCalls(pipe.doc), CargoCalls(pipe.doc))

\* The names of the cargoes and of the resources of doc.
CargoNames(doc) == { doc.cargoes[k] : k \in 1..Len(doc.cargoes) }
ResourceNames(doc) == { doc.resources[k] : k \in 1..Len(doc.resources) }

\* The progress messages of an apply that belong to the list of cargoes and
\* to the list of resources of doc.
CargoMsgs(doc) ==
  { Msg(t \o " Cargo " \o x) :
      t \in {"Creating", "Created", "Started"}, x \in CargoNames(doc) }
  \cup { Error(c) : c \in CargoCalls(doc) }
  \cup { Msg("Creating " \o Str(Len(doc.cargoes))
             \o " cargoes in namespace: " \o NamespaceOf(doc)) }
ResourceMsgs(doc) ==
  { Msg(t \o " Resource " \o x) :
      t \in {"Creating", "Created"}, x \in ResourceNames(doc) }
  \cup { Error(c) : c \in ResourceCalls(doc) }
  \cup { Msg("Creating " \o Str(Len(doc.resources)) \o " resources") }

\* The final messages of a cargo and of a resource in an apply.
CargoFinal(x) ==
  { Msg("Started Cargo " \o x), Error("create_or_put " \o x), Error("start " \o x) }
ResourceFinal(x) ==
  { Msg("Created Resource " \o x), Error("create_or_patch " \o x) }

\* Item x of an apply has finished: its last call has answered.
CargoDone(x) ==
  \/ ("CargoStarted " \o x) \in spawned
  \/ {"create_or_put " \o x, "start " \o x} \cap pipe.failed # {}
ResourceDone(x) ==
  \/ ("ResourcePatched " \o x) \in spawned
  \/ ("create_or_patch " \o x) \in pipe.failed

\* Some element of F stands in l before position j.
FinalBefore(l, F, j) == \E i \in 1..(j - 1) : l[i] \in F

\* C23: in an apply, once a step or a message of one list follows a step or
\* a message of the other list, every item of the earlier list has finished
\* and has published its final message; the two lists never interleave.
C23_ListsAreSequenced ==
  pipe.op = "apply" =>
    LET doc == pipe.doc
        l == pipe.log
        m == progress
        cc == CargoCalls(doc)
        rc == ResourceCalls(doc)
        cm == CargoMsgs(doc)
        rm == ResourceMsgs(doc)
    IN  /\ \A j \in 1..Len(l) :
             /\ (l[j] \in rc /\ \E i \in 1..(j - 1) : l[i] \in cc)
                  => \A x \in CargoNames(doc) : CargoDone(x)
             /\ (l[j] \in cc /\ \E i \in 1..(j - 1) : l[i] \in rc)
                  => \A x \in ResourceNames(doc) : ResourceDone(x)
        /\ rx_alive =>
             \A j \in 1..Len(m) :
               /\ (m[j] \in rm /\ FinalBefore(m, cm, j))
                    => \A x \in CargoNames(doc) : FinalBefore(m, CargoFinal(x), j)
               /\ (m[j] \in cm /\ FinalBefore(m, rm, j))
                    => \A x \in ResourceNames(doc) :
                         FinalBefore(m, ResourceFinal(x), j)

\* Message x stands before message y in l.
Before(l, x, y) == \E i, j \in 1..Len(l) : i < j /\ l[i] = x /\ l[j] = y

\* An apply of two cargoes and a resource has finished; the second cargo
\* of the list was begun before the first, and the resource came last.
C23_Witness ==
  /\ pipe.op = "apply" /\ pipe.pc = "done" /\ rx_alive
  /\ pipe.doc.cargoes = <<"a", "b">>
  /\ Before(progress, Msg("Creating Cargo b"), Msg("Creating Cargo a"))
  /\ Before(progress, Msg("Creating Cargo a"), Msg("Started Cargo b"))
  /\ Before(progress, Msg("Started Cargo a"), Msg("Creating Resource r"))

\* The elements of sequence l.
Range(l) == { l[i] : i \in 1..Len(l) }

\* C24: in an apply, a failed create-or-update or start of an item puts
\* exactly one Error message for it on the stream (when the receiver
\* exists) and no Created/Started message of the failed step; every other
\* item of every list is still processed and the apply returns Ok.
C24_ItemErrorsAreNotFatal ==
  pipe.op = "apply" =>
    LET doc == pipe.doc
        sent == Range(progress)
        calls == Range(pipe.log)
    IN  /\ \A c \in pipe.failed \ {"create_namespace"} :
             rx_alive => Cardinality(Positions(progress, Error(c))) = 1
        /\ \A i \in 1..Len(progress) :
             progress[i].kind = "Error" => progress[i].text \in pipe.failed
        /\ \A x \in CargoNames(doc) :
             /\ ("create_or_put " \o x) \in pipe.failed =>
                  /\ Msg("Created Cargo " \o x) \notin sent
                  /\ Msg("Started Cargo " \o x) \notin sent
                  /\ ("start " \o x) \notin calls
             /\ ("start " \o x) \in pipe.failed =>
                  Msg("Started Cargo " \o x) \notin sent
        /\ \A x \in ResourceNames(doc) :
             ("create_or_patch " \o x) \in pipe.failed =>
               Msg("Created Resource " \o x) \notin sent
        /\ (pipe.pc = "done" /\ "create_namespace" \notin pipe.failed) =>
             /\ pipe.res = "Ok"
             /\ \A x \in CargoNames(doc) :
                  /\ ("create_or_put " \o x) \in calls
                  /\ ("create_or_put " \o x) \notin pipe.failed
                       => ("start " \o x) \in calls
             /\ \A x \in ResourceNames(doc) : ("create_or_patch " \o x) \in calls

\* An apply has returned Ok although create_or_put of cargo a and start of
\* cargo b failed: both errors are on the stream and the resource, which
\* came after them, was created.
C24_Witness ==
  /\ pipe.op = "apply" /\ pipe.pc = "done" /\ pipe.res = "Ok" /\ rx_alive
  /\ pipe.failed = {"create_or_put a", "start b"}
  /\ Before(progress, Error("create_or_put a"), Msg("Created Cargo b"))
  /\ Before(progress, Error("start b"), Msg("Created Resource r"))

\* The delete calls of a revert of doc.
DeleteCalls(doc) ==
  { "delete_cargo " \o x : x \in CargoNames(doc) }
  \cup { "delete_resource " \o x : x \in ResourceNames(doc) }

\* C25: in a revert, a failed delete puts an Error message on the stream
\* (when the receiver exists) and the revert goes on: when it has finished
\* with its receiver alive, every constituent whose own lookup and delete
\* did not fail is gone.
C25_RevertErrorsAreNotFatal ==
  (pipe.op = "revert" /\ rx_alive) =>
    /\ \A c \in pipe.failed \cap DeleteCalls(pipe.doc) :
         Error(c) \in Range(progress)
    /\ pipe.pc = "done" =>
         /\ \A x \in CargoNames(pipe.doc) :
              {"inspect_cargo " \o x, "delete_cargo " \o x} \cap pipe.failed = {}
                => GenKey(NamespaceOf(pipe.doc), x) \notin world.cargoes
         /\ \A x \in ResourceNames(pipe.doc) :
              {"inspect_resource " \o x, "delete_resource " \o x} \cap pipe.failed = {}
                => x \notin world.resources

\* C26: a revert that follows an apply of the document handles the two
\* lists in the reverse order: the list the apply handled first is the
\* list the revert handles last.
C26_RevertInReverseOrder ==
  (pipe.op = "revert" /\ pipe.prev.op = "apply") =>
    /\ pipe.prev.first = "cargoes" =>
         AllBefore(pipe.log, ResourceCalls(pipe.doc), CargoCalls(pipe.doc))
    /\ pipe.prev.first = "resources" =>
         AllBefore(pipe.log, CargoCalls(pipe.doc), ResourceCalls(pipe.doc))

\* The Skipping message of a constituent.
Skipping(kind, x) == Msg("Skipping " \o kind \o " " \o x \o " [NOT FOUND]")

\* A revert that looked up every constituent of the document and whose
\* messages all arrived.
RevertComplete == pipe.pc = "done" /\ pipe.res = "Ok" /\ rx_alive

\* C27: in a revert, a constituent of the document that did not exist when
\* the revert began gets no delete call, no Deleted message and no Deleted
\* emission, and exactly one Skipping message once the revert is through;
\* a second revert of the document deletes nothing and publishes one
\* Skipping message per constituent.
C27_RevertDeletesOnlyWhatIsPresent ==
  pipe.op = "revert" =>
    LET doc == pipe.doc
        sent == Range(progress)
        calls == Range(pipe.log)
    IN  /\ \A x \in CargoNames(doc) :
             GenKey(NamespaceOf(doc), x) \notin pipe.before.cargoes =>
               /\ ("delete_cargo " \o x) \notin calls
               /\ ("CargoDeleted " \o x) \notin spawned
               /\ Msg("Deleted Cargo " \o x) \notin sent
               /\ RevertComplete =>
                    Cardinality(Positions(progress, Skipping("Cargo", x))) = 1
        /\ \A x \in ResourceNames(doc) :
             x \notin pipe.before.resources =>
               /\ ("delete_resource " \o x) \notin calls
               /\ ("ResourceDeleted " \o x) \notin spawned
               /\ Msg("Deleted Resource " \o x) \notin sent
               /\ RevertComplete =>
                    Cardinality(Positions(progress, Skipping("Resource", x))) = 1
        /\ pipe.prev.op = "revert" =>
             /\ pipe.log = <<>> /\ spawned = {} /\ world = pipe.before
             /\ RevertComplete =>
                  /\ \A x \in CargoNames(doc) :
                       Cardinality(Positions(progress, Skipping("Cargo", x))) = 1
                  /\ \A x \in ResourceNames(doc) :
                       Cardinality(Positions(progress, Skipping("Resource", x))) = 1

\* A second revert of a document with two cargoes and a resource is
\* through: the first revert had deleted all three, the second skipped
\* each of them.
C27_Witness ==
  /\ pipe.op = "revert" /\ pipe.prev.op = "revert" /\ RevertComplete
  /\ pipe.prev.before.cargoes = {GenKey(NamespaceOf(pipe.doc), "a"),
                                 GenKey(NamespaceOf(pipe.doc), "b")}
  /\ pipe.prev.before.resources = {"r"}
  /\ Before(progress, Skipping("Cargo", "a"), Skipping("Cargo", "b"))
  /\ Before(progress, Skipping("Cargo", "b"), Skipping("Resource", "r"))

\* C28: once a send on the progress stream has failed, the request issues
\* no further create, patch, start or delete, and the store stays as it is.
C28_FailedSendStopsThePipeline ==
  [][pipe.send_failed => (pipe'.log = pipe.log /\ world' = world)]_vars

\* The header of the cargoes of an apply of doc.
CargoHeader(doc) ==
  Msg("Creating " \o Str(Len(doc.cargoes)) \o " cargoes in namespace: "
      \o NamespaceOf(doc))

\* C29: in the stream of an apply the header of the cargoes stands before
\* every message of a cargo; for each cargo x, Creating stands before
\* Created and Created before Started, each at most once; Created is there
\* only when create_or_put succeeded and Started only when start succeeded.
C29_CargoMessagesInOrder ==
  pipe.op = "apply" =>
    LET doc == pipe.doc
        m == progress
    IN  /\ \A j \in 1..Len(m) :
             m[j] \in CargoMsgs(doc) \ {CargoHeader(doc)}
               => FinalBefore(m, {CargoHeader(doc)}, j)
        /\ \A x \in CargoNames(doc) :
             LET creating == Msg("Creating Cargo " \o x)
                 created == Msg("Created Cargo " \o x)
                 started == Msg("Started Cargo " \o x)
             IN  /\ \A t \in {creating, created, started} :
                      Cardinality(Positions(m, t)) <= 1
                 /\ \A j \in Positions(m, created) : FinalBefore(m, {creating}, j)
                 /\ \A j \in Positions(m, started) : FinalBefore(m, {created}, j)
                 /\ created \in Range(m) =>
                      /\ ("create_or_put " \o x) \notin pipe.failed
                      /\ ("CargoPatched " \o x) \in spawned
                      /\ GenKey(NamespaceOf(doc), x) \in world.cargoes
                 /\ started \in Range(m) =>
                      /\ ("start " \o x) \in Range(pipe.log) \ pipe.failed
                      /\ ("CargoStarted " \o x) \in spawned

\* Both cargoes of an apply are started; cargo b was created and started
\* before cargo a was begun.
C29_Witness ==
  /\ pipe.op = "apply" /\ rx_alive /\ pipe.doc.cargoes = <<"a", "b">>
  /\ progress # <<>> /\ progress[1] = CargoHeader(pipe.doc)
  /\ Before(progress, Msg("Started Cargo b"), Msg("Creating Cargo a"))
  /\ Before(progress, Msg("Created Cargo a"), Msg("Started Cargo a"))

\* The objects of store w: cargoes, resources and namespaces, by kind.
ObjectsOf(w) ==
  { <<"Cargo", x>> : x \in w.cargoes }
  \cup { <<"Resource", x>> : x \in w.resources }
  \cup { <<"Namespace", x>> : x \in w.namespaces }

\* C30: after a clean apply of the document followed by a clean revert of
\* it, no object the apply created remains and every object that existed
\* before the apply is still there.
C30_RevertUndoesApply ==
  (pipe.op = "revert" /\ Clean /\ pipe.prev.op = "apply" /\ pipe.prev.clean) =>
    LET was == ObjectsOf(pipe.prev.before)
        made == ObjectsOf(pipe.prev.after) \ was
    IN  /\ made \cap ObjectsOf(world) = {}
        /\ was \subseteq ObjectsOf(world)

\* C31: an apply that follows a clean apply of the document leaves the set
\* of live objects as the first apply left it, at every step and whatever
\* fails in it; when it is clean too, every constituent of the document is
\* live.
C31_ApplyTwiceSameObjects ==
  (pipe.op = "apply" /\ pipe.prev.op = "apply" /\ pipe.prev.clean) =>
    /\ ObjectsOf(world) = ObjectsOf(pipe.prev.after)
    /\ Clean =>
         /\ <<"Namespace", NamespaceOf(pipe.doc)>> \in ObjectsOf(world)
         /\ \A x \in CargoNames(pipe.doc) :
              <<"Cargo", GenKey(NamespaceOf(pipe.doc), x)>> \in ObjectsOf(world)
         /\ \A x \in ResourceNames(pipe.doc) :
              <<"Resource", x>> \in ObjectsOf(world)

\* A second clean apply of a document with a namespace, two cargoes and a
\* resource, of which the first apply had found cargo a and the resource
\* and had created cargo b.
C31_Witness ==
  /\ pipe.op = "apply" /\ pipe.prev.op = "apply" /\ Clean
  /\ pipe.doc.namespace = "demo" /\ pipe.doc.cargoes = <<"a", "b">>
  /\ pipe.doc.resources = <<"r">>
  /\ pipe.prev.before = [cargoes |-> {"a.demo"}, resources |-> {"r"},
                         namespaces |-> {"global", "demo"}]
  /\ "create_or_put b" \in Range(pipe.log)

(***************************************************************************)
(* parse_state (bin/nanocld/src/utils/state.rs)                            *)
(*                                                                         *)
(* A pure function from a JSON document to a StateData or an error.  Of a  *)
(* document the model keeps its Kind field (None when it has none) and     *)
(* the set of shapes its body deserializes to.                             *)
(***************************************************************************)

\* The state of the daemon with no request on any path.
QuietInit ==
  /\ processes = <<>>
  /\ containers = [k \in ProcKeys |-> "absent"]
  /\ status = CreatedRow
  /\ events = <<>>
  /\ tasks = EmptyBag
  /\ StoreInit(BasePartial)
  /\ world = NoWorld
  /\ pipe = IdlePipe(NoDoc)
  /\ progress = <<>>
  /\ rx_alive = TRUE
  /\ spawned = {}

\* The shapes a body can have, and the Kind fields explored: the five
\* kinds of the State document, one other kind, one kind in another case.
Shapes == {"Deployment", "Cargo", "Vm", "Job", "Resource"}
KindFields == Shapes \cup {None, "Secret", "deployment"}

\* The documents given to parse_state.
Documents == [kind : KindFields, fits : SUBSET Shapes]

\* What parse_state returns: Ok(StateData::<variant>) or Err(HttpError).
ParseOk(variant) == [status |-> 200, variant |-> variant]
ParseErr == [status |-> 400, variant |-> None]

\* state.rs:145-183  parse_state: StateMeta is read first (a document
\* without Kind is refused), then the arm of the kind deserializes the
\* body; the arms are "Deployment", "Cargo" and "Resource".
ParseState(data) ==
  IF data.kind = None THEN ParseErr
  ELSE IF data.kind \in {"Deployment", "Cargo", "Resource"}
  THEN IF data.kind \in data.fits THEN ParseOk(data.kind) ELSE ParseErr
  ELSE ParseErr

\* parse_state is called on the document.
CallParseState ==
  /\ ~parse.called
  /\ parse' = [parse EXCEPT !.called = TRUE,
                            !.status = ParseState(parse.data).status,
                            !.variant = ParseState(parse.data).variant]
  /\ UNCHANGED <<status, processes, containers, events, tasks, vmconf, bus, node, emitters, pair>>
  /\ UNCHANGED store_vars
  /\ UNCHANGED pipe_vars

InitParse ==
  /\ QuietInit
  /\ AuxIdle("parse")
  /\ \E d \in Documents : parse = [NoParse EXCEPT !.data = d]

NextParse == CallParseState

SpecParse == InitParse /\ [][NextParse]_vars

\* C32: parse_state returns the StateData of the kind for a document whose
\* Kind is one of Deployment, Cargo, Vm, Job, Resource and whose body has
\* the shape of that kind, and a 400 error without a StateData for every
\* other document.
C32_ParseStateFiveKinds ==
  parse.called =>
    IF parse.data.kind \in {"Deployment", "Cargo", "Vm", "Job", "Resource"}
       /\ parse.data.kind \in parse.data.fits
    THEN parse.status = 200 /\ parse.variant = parse.data.kind
    ELSE parse.status = 400 /\ parse.variant = None

(***************************************************************************)
(* create_instance (bin/nanocld/src/utils/vm.rs)                           *)
(*                                                                         *)
(* The container configuration of a VM is a function of its spec and of    *)
(* its image.  Of the spec the model keeps vm_key and the kvm, cpu and     *)
(* memory fields of host_config; of the configuration the name, the        *)
(* command line and the device mappings.                                   *)
(***************************************************************************)

\* The VMs given to create_instance: kvm is an Option<bool>.
VmInputs ==
  [vm_key : {"vm1.global", "db.demo"},
   kvm : {None, "Some(false)", "Some(true)"},
   cpu : {0, 1, 4},
   memory : {0, 2}]
ImagePaths == {"/img/a.img", "/img/b.img"}

\* DeviceMapping { path_on_host, path_in_container, cgroup_permissions }
Device(path) ==
  [path_on_host |-> path, path_in_container |-> path,
   cgroup_permissions |-> "rwm"]

\* Option<bool>::unwrap_or_default()
UnwrapOrDefault(o) == o = "Some(true)"

\* Variant: the VM is given KVM whatever its host_config says.
CreateInstanceKvmAlways(vm, image) ==
  [name |-> vm.vm_key \o ".v",
   cmd |-> <<"-hda", image, "--nographic", "-accel", "kvm",
             "-smp", IF vm.cpu > 0 THEN Str(vm.cpu) ELSE "1",
             "-m", IF vm.memory > 0 THEN Str(vm.memory) \o "M" ELSE "512M">>,
   devices |-> <<Device("/dev/net/tun"), Device("/dev/kvm")>>]

\* vm.rs:70-170  create_instance: the command line, the devices and the
\* name of the container handed to utils::process::create.
CreateInstance(vm, image) ==
  LET kvm == UnwrapOrDefault(vm.kvm)
  IN  [name |-> vm.vm_key \o ".v",
       cmd |-> <<"-hda", image, "--nographic">>
               \o (IF kvm THEN <<"-accel", "kvm">> ELSE <<>>)
               \o <<"-smp", IF vm.cpu > 0 THEN Str(vm.cpu) ELSE "1">>
               \o <<"-m", IF vm.memory > 0 THEN Str(vm.memory) \o "M" ELSE "512M">>,
       devices |-> <<Device("/dev/net/tun")>>
                   \o (IF kvm THEN <<Device("/dev/kvm")>> ELSE <<>>)]

\* vm.rs:234  put: the name of the container it stops and removes
PutContainerName(vm) == vm.vm_key \o ".v"

\* create_instance is called on the VM and its image.
CallCreateInstance ==
  /\ ~vmconf.called
  /\ LET c == CreateInstance(vmconf.vm, vmconf.image)
     IN  vmconf' = [vmconf EXCEPT !.called = TRUE, !.name = c.name,
                                  !.cmd = c.cmd, !.devices = c.devices]
  /\ UNCHANGED <<status, processes, containers, events, tasks, parse, bus, node, emitters, pair>>
  /\ UNCHANGED store_vars
  /\ UNCHANGED pipe_vars

InitInstance ==
  /\ QuietInit
  /\ AuxIdle("vmconf")
  /\ \E vm \in VmInputs, image \in ImagePaths :
       vmconf = [NoVmConf EXCEPT !.vm = vm, !.image = image]

NextInstance == CallCreateInstance

SpecInstance == InitInstance /\ [][NextInstance]_vars

\* x directly followed by y stands in l.
Adjacent(l, x, y) == \E i \in 1..(Len(l) - 1) : l[i] = x /\ l[i + 1] = y

\* C34: the configuration create_instance builds has `-accel kvm` on its
\* command line and maps /dev/kvm exactly when host_config.kvm is true; it
\* always maps /dev/net/tun; the container is named `<vm_key>.v`, which is
\* the name put removes.
C34_KvmIffHostConfig ==
  vmconf.called =>
    LET kvm == vmconf.vm.kvm = "Some(true)"
    IN  /\ Adjacent(vmconf.cmd, "-accel", "kvm") <=> kvm
        /\ Device("/dev/kvm") \in Range(vmconf.devices) <=> kvm
        /\ Device("/dev/net/tun") \in Range(vmconf.devices)
        /\ vmconf.name = vmconf.vm.vm_key \o ".v"
        /\ vmconf.name = PutContainerName(vmconf.vm)

\* create_instance was called for a VM with kvm: both devices are mapped.
C34_Witness ==
  /\ vmconf.called /\ vmconf.vm.kvm = "Some(true)"
  /\ vmconf.name = "db.demo.v"
  /\ Len(vmconf.devices) = 2 /\ Adjacent(vmconf.cmd, "-accel", "kvm")

(***************************************************************************)
(* The event bus and its subscribers                                       *)
(*                                                                         *)
(* ObjProcess::_emit reads the object and hands the event to the bus; the  *)
(* bus puts it on the bounded queue of every live subscriber and never     *)
(* blocks: a subscriber whose queue is full is dropped.  Each subscriber   *)
(* takes the events off its own queue.  Two cargoes are started.           *)
(***************************************************************************)

\* Capacity of the queue of a subscriber.
QueueCap == 2

Subscribers == {"dns", "proxy"}
BusObjects == {"hello", "web"}

\* The event of an action on an object.
Event(object, action) == [object |-> object, action |-> action]

\* Variant: a new event is put at the front of the queue.
EnqueueFront(q, ev) == <<ev>> \o q

\* The bus puts an event at the end of the queue of a subscriber.
Enqueue(q, ev) == Append(q, ev)

\* emit_normal_native_action: the event goes to every live subscriber
\* without blocking; a subscriber whose queue is full is dropped.
BusSend(b, ev) ==
  [b EXCEPT
     !.sent = Append(@, ev),
     !.queue = [s \in Subscribers |->
                  IF b.live[s] /\ Len(b.queue[s]) < QueueCap
                  THEN Enqueue(b.queue[s], ev) ELSE <<>>],
     !.live = [s \in Subscribers |->
                 b.live[s] /\ Len(b.queue[s]) < QueueCap]]

\* process.rs:76, 23-54  start_process_by_kind_key emits Starting through
\* _emit: the object is read first and a failed read returns without an
\* event.
EmitStarting(o) ==
  /\ bus.emitter[o] = "idle"
  /\ \E ok \in BOOLEAN :
       bus' = IF ok
              THEN [BusSend(bus, Event(o, "Starting"))
                      EXCEPT !.emitter[o] = "starting"]
              ELSE [bus EXCEPT !.emitter[o] = "failed"]
  /\ UNCHANGED <<status, processes, containers, events, tasks, parse, vmconf, node, emitters, pair>>
  /\ UNCHANGED store_vars
  /\ UNCHANGED pipe_vars

\* The containers of the cargo have started: Started is emitted.
EmitStarted(o) ==
  /\ bus.emitter[o] = "starting"
  /\ bus' = [BusSend(bus, Event(o, "Started")) EXCEPT !.emitter[o] = "started"]
  /\ UNCHANGED <<status, processes, containers, events, tasks, parse, vmconf, node, emitters, pair>>
  /\ UNCHANGED store_vars
  /\ UNCHANGED pipe_vars

\* A subscriber takes the next event off its queue.
Receive(s) ==
  /\ bus.live[s] /\ bus.queue[s] # <<>>
  /\ bus' = [bus EXCEPT !.got[s] = Append(@, Head(bus.queue[s])),
                        !.queue[s] = Tail(@)]
  /\ UNCHANGED <<status, processes, containers, events, tasks, parse, vmconf, node, emitters, pair>>
  /\ UNCHANGED store_vars
  /\ UNCHANGED pipe_vars

InitBus ==
  /\ QuietInit
  /\ AuxIdle("bus")
  /\ bus = [emitter |-> [o \in BusObjects |-> "idle"],
            sent |-> <<>>,
            queue |-> [s \in Subscribers |-> <<>>],
            got |-> [s \in Subscribers |-> <<>>],
            live |-> [s \in Subscribers |-> TRUE]]

NextBus ==
  \/ \E o \in BusObjects : EmitStarting(o)
  \/ \E o \in BusObjects : EmitStarted(o)
  \/ \E s \in Subscribers : Receive(s)

SpecBus == InitBus /\ [][NextBus]_vars

\* The position at which event ev was emitted.
EmittedAt(ev) == CHOOSE i \in 1..Len(bus.sent) : bus.sent[i] = ev

\* C33: what a subscriber has received of one object is in the order of
\* emission: two events of the same object are never received in the
\* opposite order, and Started of a cargo never before its Starting.
C33_EventsInEmissionOrder ==
  \A s \in Subscribers :
    LET g == bus.got[s]
    IN  \A i, j \in 1..Len(g) :
          (i < j /\ g[i].object = g[j].object) =>
            /\ g[i] \in Range(bus.sent) /\ g[j] \in Range(bus.sent)
            /\ EmittedAt(g[i]) < EmittedAt(g[j])
            /\ g[i].action = "Starting" /\ g[j].action = "Started"

\* Both subscribers are live and have received Starting and Started of
\* both cargoes, the events of the two cargoes interleaved.
C33_Witness ==
  /\ bus.got["dns"] = <<Event("hello", "Starting"), Event("web", "Starting"),
                        Event("hello", "Started"), Event("web", "Started")>>
  /\ bus.got["proxy"] = bus.got["dns"]
  /\ bus.live["dns"] /\ bus.live["proxy"]

(***************************************************************************)
(* NodeDb::register (bin/nanocld/src/repositories/node.rs)                 *)
(*                                                                         *)
(* A daemon registers its node when it starts: the row is read by its      *)
(* name and created when the read fails.  Registrations of several starts  *)
(* (with the gateway of the moment) may overlap; each store call may fail. *)
(***************************************************************************)

\* Number of registrations in one run.
MaxRegs == 3

Hostnames == {"n1", "n2"}
Gateways == {"10.0.0.1", "10.0.0.2"}

\* NodeDb { name, ip_address, created_at }
NodeRow(name, ip, at) == [name |-> name, ip_address |-> ip, created_at |-> at]
NoNodeRow == NodeRow(None, None, 0)

\* Variant: create_from replaces the row of the name.
UpsertNode(rows, n) == { r \in rows : r.name # n.name } \cup {n}

\* schema.rs:56  nodes (name): an insert under a name that is taken is
\* refused.
InsertNode(rows, n) ==
  IF \E r \in rows : r.name = n.name THEN rows ELSE rows \cup {n}

\* node.rs:82-90  register: the row is built from the config and the clock,
\* and create_if_not_exists is entered.
Register ==
  /\ Len(node.calls) < MaxRegs
  /\ \E name \in Hostnames, ip \in Gateways :
       node' = [node EXCEPT
                  !.clock = @ + 1,
                  !.calls = Append(@, [pc |-> "read",
                                       node |-> NodeRow(name, ip, node.clock + 1),
                                       res |-> "none", returned |-> NoNodeRow,
                                       wrote |-> FALSE])]
  /\ UNCHANGED <<status, processes, containers, events, tasks, parse, vmconf, bus, emitters, pair>>
  /\ UNCHANGED store_vars
  /\ UNCHANGED pipe_vars

\* node.rs:76-79  NodeDb::read_by_pk(&node.name): Ok(node) is returned as
\* it is, any Err leads to create_from.
NodeRead(i) ==
  /\ node.calls[i].pc = "read"
  /\ \E ok \in BOOLEAN :
       LET found == { r \in node.rows : r.name = node.calls[i].node.name }
       IN  node' =
             IF ok /\ found # {}
             THEN [node EXCEPT !.calls[i].pc = "done", !.calls[i].res = "Ok",
                               !.calls[i].returned = CHOOSE r \in found : TRUE]
             ELSE [node EXCEPT !.calls[i].pc = "create"]
  /\ UNCHANGED <<status, processes, containers, events, tasks, parse, vmconf, bus, emitters, pair>>
  /\ UNCHANGED store_vars
  /\ UNCHANGED pipe_vars

\* node.rs:77  NodeDb::create_from(node.clone()): the insert, which the
\* store may refuse.
NodeCreate(i) ==
  /\ node.calls[i].pc = "create"
  /\ \E ok \in BOOLEAN :
       LET n == node.calls[i].node
           rows == IF ok THEN InsertNode(node.rows, n) ELSE node.rows
           done == ok /\ rows # node.rows
       IN  node' = [node EXCEPT
                      !.rows = rows,
                      !.calls[i].pc = "done",
                      !.calls[i].res = IF done THEN "Ok" ELSE "StoreErr",
                      !.calls[i].returned = IF done THEN n ELSE NoNodeRow,
                      !.calls[i].wrote = done]
  /\ UNCHANGED <<status, processes, containers, events, tasks, parse, vmconf, bus, emitters, pair>>
  /\ UNCHANGED store_vars
  /\ UNCHANGED pipe_vars

InitNode ==
  /\ QuietInit
  /\ AuxIdle("node")
  /\ node = NoNodes

NextNode ==
  \/ Register
  \/ \E i \in DOMAIN node.calls : NodeRead(i)
  \/ \E i \in DOMAIN node.calls : NodeCreate(i)

SpecNode == InitNode /\ [][NextNode]_vars

\* The registrations of name that have written a row.
Writers(name) ==
  { i \in DOMAIN node.calls :
      node.calls[i].node.name = name /\ node.calls[i].wrote }

\* C35: the nodes table holds at most one row per name, and holds one as
\* soon as a registration of the name has succeeded; the row is the one
\* the first registration that wrote has built (its ip_address, its
\* created_at), and no other registration writes: a registration that
\* succeeds afterwards returns that row.
C35_NodeInsertedOnce ==
  \A name \in Hostnames :
    LET rs == { r \in node.rows : r.name = name }
    IN  /\ Cardinality(rs) <= 1
        /\ Cardinality(Writers(name)) <= 1
        /\ rs # {} <=> Writers(name) # {}
        /\ \A i \in Writers(name) : rs = {node.calls[i].node}
        /\ \A i \in DOMAIN node.calls :
             (node.calls[i].node.name = name /\ node.calls[i].res = "Ok") =>
               /\ rs = {node.calls[i].returned}
               /\ i \notin Writers(name) => node.calls[i].returned # node.calls[i].node

\* Three registrations of n1: the first wrote its row, the second, with
\* another gateway, got the row of the first, the third lost its read and
\* was refused the insert.
C35_Witness ==
  /\ Len(node.calls) = 3
  /\ \A i \in 1..3 : node.calls[i].node.name = "n1" /\ node.calls[i].pc = "done"
  /\ node.calls[1].wrote /\ node.calls[1].node.ip_address = "10.0.0.1"
  /\ node.calls[2].res = "Ok" /\ node.calls[2].node.ip_address = "10.0.0.2"
  /\ node.calls[2].returned = node.calls[1].node
  /\ node.calls[3].res = "StoreErr"
  /\ node.rows = {node.calls[1].node}

(***************************************************************************)
(* The emission tasks of create_cargoes (bin/nanocld/src/utils/state.rs)   *)
(*                                                                         *)
(* The future of a cargo hands two tasks to rt::spawn: one after           *)
(* create_or_put, which inspects the cargo and emits CargoPatched, one     *)
(* after start, which inspects the cargo and emits CargoStarted.  A task   *)
(* runs on its own: each of its awaits is a step that interleaves with     *)
(* the steps of the future and of the other tasks.                         *)
(***************************************************************************)

EmitCargoes == {"a", "b"}

\* The future of a cargo at create_or_put, no task spawned.
NewEmitter == [main |-> "create", patched |-> "none", started |-> "none"]

\* state.rs:38-60  create_or_put returns: on success the CargoPatched task
\* is spawned and start is called.
CreateAnswered(x) ==
  /\ emitters[x].main = "create"
  /\ \E ok \in BOOLEAN :
       emitters' = IF ok
                   THEN [emitters EXCEPT ![x].main = "start",
                                         ![x].patched = "inspect"]
                   ELSE [emitters EXCEPT ![x].main = "done"]
  /\ UNCHANGED <<status, processes, containers, events, tasks>>
  /\ UNCHANGED <<parse, vmconf, bus, node, pair>>
  /\ UNCHANGED store_vars
  /\ UNCHANGED pipe_vars

\* state.rs:61-85  start returns: on success the CargoStarted task is
\* spawned.
StartAnswered(x) ==
  /\ emitters[x].main = "start"
  /\ \E ok \in BOOLEAN :
       emitters' = IF ok
                   THEN [emitters EXCEPT ![x].main = "done",
                                         ![x].started = "inspect"]
                   ELSE [emitters EXCEPT ![x].main = "done"]
  /\ UNCHANGED <<status, processes, containers, events, tasks>>
  /\ UNCHANGED <<parse, vmconf, bus, node, pair>>
  /\ UNCHANGED store_vars
  /\ UNCHANGED pipe_vars

\* state.rs:55, 79  utils::cargo::inspect(..).await.unwrap() in a spawned
\* task: an error ends the task in a panic, without an event.
TaskInspect(x, t) ==
  /\ emitters[x][t] = "inspect"
  /\ \E ok \in BOOLEAN :
       emitters' = [emitters EXCEPT ![x][t] = IF ok THEN "emit" ELSE "panic"]
  /\ UNCHANGED <<status, processes, containers, events, tasks>>
  /\ UNCHANGED <<parse, vmconf, bus, node, pair>>
  /\ UNCHANGED store_vars
  /\ UNCHANGED pipe_vars

\* The event a task emits.
EventOf(x, t) ==
  (IF t = "patched" THEN "CargoPatched " ELSE "CargoStarted ") \o x

\* state.rs:56-59, 80-83  event_emitter.emit(..).await in a spawned task
TaskEmit(x, t) ==
  /\ emitters[x][t] = "emit"
  /\ emitters' = [emitters EXCEPT ![x][t] = "done"]
  /\ events' = Append(events, EventOf(x, t))
  /\ UNCHANGED <<status, processes, containers, tasks>>
  /\ UNCHANGED <<parse, vmconf, bus, node, pair>>
  /\ UNCHANGED store_vars
  /\ UNCHANGED pipe_vars

InitEmit ==
  /\ QuietInit
  /\ AuxIdle("emitters")
  /\ emitters = [x \in EmitCargoes |-> NewEmitter]

NextEmit ==
  \/ \E x \in EmitCargoes : CreateAnswered(x)
  \/ \E x \in EmitCargoes : StartAnswered(x)
  \/ \E x \in EmitCargoes, t \in {"patched", "started"} : TaskInspect(x, t)
  \/ \E x \in EmitCargoes, t \in {"patched", "started"} : TaskEmit(x, t)

SpecEmit == InitEmit /\ [][NextEmit]_vars

\* C36: on the event bus, CargoStarted of a cargo is preceded by
\* CargoPatched of the same cargo.
C36_PatchedBeforeStarted ==
  \A x \in EmitCargoes :
    \A j \in 1..Len(events) :
      events[j] = EventOf(x, "started") =>
        \E i \in 1..(j - 1) : events[i] = EventOf(x, "patched")

(***************************************************************************)
(* revert_cargo next to revert_deployment                                  *)
(* (bin/nanocld/src/utils/state.rs)                                        *)
(*                                                                         *)
(* The two reverts are run to their end on the same document and the same  *)
(* store, with the same answers of the store: which lookups and which      *)
(* deletes fail is part of the input.  The receiver is kept.               *)
(***************************************************************************)

\* state.rs:423-433  revert_cargo: the top of the loop, at index i:
\* Deleting is announced before the cargo is looked up.
CargoRevertTop(p, i, alive) ==
  IF i > Len(p.doc.cargoes) THEN Out(Finished(p, "Ok"), <<>>)
  ELSE LET m == <<Msg("Deleting Cargo " \o p.doc.cargoes[i])>>
       IN  IF alive THEN Out([p EXCEPT !.pc = "cargo_inspect", !.i = i], m)
           ELSE Out(Finished(p, "Ok"), m)

\* state.rs:405-422  revert_cargo: the spawned task begins with the header
CargoRevertBegin(p, alive) ==
  LET h == <<Msg("Deleting " \o Str(Len(p.doc.cargoes))
                 \o " cargoes in namespace " \o NamespaceOf(p.doc))>>
  IN  IF alive
      THEN Out(CargoRevertTop(p, 1, alive).p, h \o CargoRevertTop(p, 1, alive).m)
      ELSE Out(Finished(p, "Ok"), h)

\* state.rs:434-451  revert_cargo: utils::cargo::inspect has answered
CargoRevertInspected(p, found, alive) ==
  LET name == p.doc.cargoes[p.i]
  IN  IF ~found
      THEN LET m == <<Skipping("Cargo", name)>>
               r == IF alive THEN CargoRevertTop(p, p.i + 1, alive)
                    ELSE Out(Finished(p, "Ok"), <<>>)
           IN  Out(r.p, m \o r.m)
      ELSE Out(Issue([p EXCEPT !.pc = "cargo_delete"], "delete_cargo " \o name),
               <<>>)

\* state.rs:452-468  revert_cargo: utils::cargo::delete has answered
CargoRevertDeleted(p, ok, alive) ==
  LET name == p.doc.cargoes[p.i]
  IN  IF ~ok THEN Out(Finished(Failed(p, "delete_cargo " \o name), "Err"), <<>>)
      ELSE LET m == <<Msg("Deleted Cargo " \o name)>>
               r == IF alive THEN CargoRevertTop(p, p.i + 1, alive)
                    ELSE Out(Finished(p, "Ok"), <<>>)
           IN  Out(r.p, m \o r.m)

\* What a revert leaves: its messages, its delete calls, its result and
\* the cargoes of the store.
RevertResult(p, msgs, cargoes) ==
  [msgs |-> msgs, log |-> p.log, res |-> p.res, cargoes |-> cargoes]

\* A revert run to its end from request p: `deployment` says which of the
\* two functions runs; in.inspect_err and in.delete_err are the cargoes
\* whose lookup and whose delete the store fails.
RECURSIVE RevertRun(_, _, _, _, _)
RevertRun(deployment, p, msgs, cargoes, in) ==
  IF p.pc = "cargo_inspect"
  THEN LET found == CargoAt(p) \in cargoes
                    /\ p.doc.cargoes[p.i] \notin in.inspect_err
           r == IF deployment THEN CargoInspected(p, found, TRUE)
                ELSE CargoRevertInspected(p, found, TRUE)
       IN  RevertRun(deployment, r.p, msgs \o r.m, cargoes, in)
  ELSE IF p.pc = "cargo_delete"
  THEN LET ok == p.doc.cargoes[p.i] \notin in.delete_err
           r == IF deployment THEN CargoDeleted(p, ok, TRUE)
                ELSE CargoRevertDeleted(p, ok, TRUE)
       IN  RevertRun(deployment, r.p, msgs \o r.m,
                     IF ok THEN cargoes \ {CargoAt(p)} ELSE cargoes, in)
  ELSE RevertResult(p, msgs, cargoes)

\* The request of a revert of doc, about to begin.
NewRevert(doc) == [IdlePipe(doc) EXCEPT !.op = "revert", !.pc = "new"]

\* revert_deployment and revert_cargo on the document and store of `in`.
RunRevertDeployment(in) ==
  LET b == RevertBeginOut(NewRevert(in.doc), TRUE)
  IN  RevertRun(TRUE, b.p, b.m, in.cargoes, in)
RunRevertCargo(in) ==
  LET b == CargoRevertBegin(NewRevert(in.doc), TRUE)
  IN  RevertRun(FALSE, b.p, b.m, in.cargoes, in)

\* The documents with a list of cargoes and no resources, the stores they
\* meet and the answers of the store.
PairInputs ==
  { in \in [doc : { d \in Docs : d.has_cargoes /\ ~d.has_resources },
            cargoes : SUBSET {"a.global", "b.global", "a.demo", "b.demo"},
            inspect_err : SUBSET {"a", "b"},
            delete_err : SUBSET {"a", "b"}] :
      /\ in.cargoes \subseteq { GenKey(NamespaceOf(in.doc), x) :
                                 x \in CargoNames(in.doc) }
      /\ in.inspect_err \cup in.delete_err \subseteq CargoNames(in.doc) }

\* Both reverts are run.
RevertBoth ==
  /\ ~pair.called
  /\ pair' = [pair EXCEPT !.called = TRUE,
                          !.deployment = RunRevertDeployment(pair.in),
                          !.cargo = RunRevertCargo(pair.in)]
  /\ UNCHANGED <<status, processes, containers, events, tasks>>
  /\ UNCHANGED <<parse, vmconf, bus, node, emitters>>
  /\ UNCHANGED store_vars
  /\ UNCHANGED pipe_vars

InitPair ==
  /\ QuietInit
  /\ AuxIdle("pair")
  /\ \E in \in PairInputs :
       pair = [called |-> FALSE, in |-> in,
               deployment |-> RevertResult(NewRevert(in.doc), <<>>, in.cargoes),
               cargo |-> RevertResult(NewRevert(in.doc), <<>>, in.cargoes)]

NextPair == RevertBoth

SpecPair == InitPair /\ [][NextPair]_vars

\* C37: on the same document (a namespace, a list of cargoes, no
\* resources) and the same store, revert_deployment and revert_cargo
\* publish the same messages, issue the same deletes and leave the same
\* cargoes.
C37_RevertCargoLikeDeployment ==
  pair.called =>
    /\ pair.deployment.msgs = pair.cargo.msgs
    /\ pair.deployment.log = pair.cargo.log
    /\ pair.deployment.cargoes = pair.cargo.cargoes

\* ---------------------------------------------------------------------------
\* Failure of put and the frame of del_by_kind_key (SpecVm)
\* ---------------------------------------------------------------------------

\* The put of the request has returned the error of one of `calls`.
PutFailedAt(calls) ==
  /\ vm_task.op \in {"put", "patch"}
  /\ vm_task.pc = "done"
  /\ vm_task.res = "Err"
  /\ vm_task.log # <<>>
  /\ vm_task.log[Len(vm_task.log)] \in calls

\* The request has returned the error of stop or of remove.
FailedEarly == PutFailedAt({"stop_err", "remove_err"})

\* The request has returned the error of the image lookup, of
\* create_instance or of start.
FailedLate == PutFailedAt({"image_err", "create_err", "start_err"})

\* C38: a put that fails at stop or at remove has minted no revision, has
\* left the spec_key of the VM at the revision it read and has created and
\* started no container, and none of its steps changed a Spec row or an
\* object row; a put that fails at the image lookup, at create_instance or at
\* start leaves the VM pointing at the revision it minted, with the removed
\* container absent (or, after a failed start, replaced by a new container
\* that does not run).
C38_PutFailureIsNotRolledBack ==
  /\ [](FailedEarly =>
          /\ ~Has(vm_task.log, "mint")
          /\ ~Has(vm_task.log, "create")
          /\ ~Has(vm_task.log, "start")
          /\ objects[VmKey].spec_key = vm_task.vm.key)
  /\ [][(/\ vm_task'.op \in {"put", "patch"}
         /\ \/ vm_task'.pc \in {"stop", "remove"}
            \/ FailedEarly')
        => /\ specs' = specs
           /\ minted' = minted
           /\ objects' = objects
           /\ containers[VmProc] = "absent" => containers'[VmProc] = "absent"
           /\ containers'[VmProc] = "running" => containers[VmProc] = "running"]_vars
  /\ [](FailedLate =>
          /\ objects[VmKey].spec_key = minted
          /\ MintedRow.kind_key = VmKey
          /\ MintedRow.kind_name = "Vm"
          /\ MintedRow.version = vm_task.version
          /\ MintedRow.data = vm_task.partial
          /\ containers[VmProc] # "running"
          /\ ~Has(vm_task.log, "create") =>
               /\ containers[VmProc] = "absent"
               /\ processes = <<>>)

\* A put that had stopped the running container of a VM updated before has
\* failed at remove: the container is left stopped and the VM points at the
\* revision of the earlier update.
C38_Witness ==
  /\ PutFailedAt({"remove_err"})
  /\ Has(vm_task.log, "stop")
  /\ containers[VmProc] = "exited"
  /\ minted = 3
  /\ objects[VmKey].spec_key = 3

\* C39: the step that deletes an object with del_by_kind_key removes every
\* Spec row of that kind_key, of any kind_name and version, and no other
\* row, and every object that is left still finds the row of its spec_key.
C39_DelByKindKeyFrame ==
  [][(/\ vm_task'.op = "delete"
      /\ vm_task'.res = "Ok")
     => /\ specs' \subseteq specs
        /\ \A r \in specs : r \in specs' <=> r.kind_key # vm_task'.key
        /\ \A k \in ObjKeys :
             objects'[k] # NoObject =>
               /\ objects'[k] = objects[k]
               /\ \E r \in specs' : /\ r.key = objects'[k].spec_key
                                    /\ r.kind_key = k]_vars

\* The VM has been deleted after an update had added a second revision to
\* it: only the row of the cargo is left, and the cargo references it.
C39_Witness ==
  /\ vm_task.op = "delete"
  /\ vm_task.key = VmKey
  /\ vm_task.res = "Ok"
  /\ minted = 3
  /\ objects[CargoKey] # NoObject
  /\ specs # {}
  /\ \A r \in specs : /\ r.kind_key = CargoKey
                      /\ r.kind_name = "Cargo"
                      /\ r.key = objects[CargoKey].spec_key

====
